---- MODULE Spec2Model ----
(***************************************************************************)
(* A model of the wasm-bodge build pipeline (src/src/build): the           *)
(* declarative environment tables and path helpers of targets.rs, the      *)
(* entrypoint generators, the package.json merge of package_json.rs, and   *)
(* the sequential run of build/mod.rs over a file system.                  *)
(*                                                                         *)
(* Strings of the program are TLA+ strings (TLC evaluates \o, Len and      *)
(* SubSeq on them), so paths and file texts are built as the code builds   *)
(* them.                                                                   *)
(***************************************************************************)
EXTENDS Integers, Sequences, FiniteSets, TLC

VARIABLES
    \* ---- the pipeline run (Spec) ----
    config,     \* the BuildConfig of main.rs (fixed per behaviour)
    world,      \* what the external tools yield: the compiled binary, the archive
    fs,         \* the file system: path -> content, for the paths that exist
    fs0,        \* history: the file system when the current run started
    pc,         \* index into Program(cfg): the step the run is about to execute
    status,     \* "running" | "done" | "failed"
    locals,     \* the run's local values: crate_name, package_name, esbuild, target_dir
    log,        \* history: the file-system effects and tool invocations of this run
    failures,   \* history: the operations of this run that failed
    runs,       \* number of runs started
    \* ---- the pure functions applied to drawn inputs (SpecMerge) ----
    package,    \* a parsed package.json value
    origPackage,\* the value before the first merge
    mdist,      \* the dist string handed to the merge
    merges,     \* number of merges applied
    resolved    \* result of the last export-condition lookup

vars == <<config, world, fs, fs0, pc, status, locals, log, failures, runs,
          package, origPackage, mdist, merges, resolved>>
pipeVars == <<config, world, fs, fs0, pc, status, locals, log, failures, runs>>
mergeVars == <<package, origPackage, mdist, merges, resolved>>

-----------------------------------------------------------------------------
\* Bounds of the model.

\* Number of runs of the pipeline over the same directories.
MaxRuns == 2
\* Number of files the prebuilt archive may lack.
MaxMissing == 1
\* Number of top-level keys of a drawn user manifest.
MaxKeys == 3
\* Number of entries of a drawn "files" array.
MaxFiles == 2
\* Number of times the merge is applied to one manifest.
MaxMerges == 2
MaxBytes == 3
MaxPieces == 3

-----------------------------------------------------------------------------
\* String helpers (Rust str methods used by the code).

\* str::starts_with
StartsWith(s, p) == Len(s) >= Len(p) /\ SubSeq(s, 1, Len(p)) = p

\* the part of s after its first Len(p) characters
DropPrefix(s, n) == SubSeq(s, n + 1, Len(s))

\* the positions at which sub occurs in s
Occurrences(s, sub) ==
    { i \in 1..(Len(s) - Len(sub) + 1) : SubSeq(s, i, i + Len(sub) - 1) = sub }

\* the least element of a non-empty set of numbers
Least(S) == CHOOSE i \in S : \A j \in S : i <= j

RECURSIVE Replace(_, _, _)
\* str::replace with a non-empty pattern: every non-overlapping occurrence,
\* left to right (also Regex::replace_all with a literal pattern).
Replace(s, from, to) ==
    IF Occurrences(s, from) = {} THEN s
    ELSE LET i == Least(Occurrences(s, from))
         IN SubSeq(s, 1, i - 1) \o to
            \o Replace(DropPrefix(s, i + Len(from) - 1), from, to)

RECURSIVE Split(_, _)
\* str::split on a one-character separator: the sequence of pieces
Split(s, sep) ==
    IF Occurrences(s, sep) = {} THEN <<s>>
    ELSE LET k == Least(Occurrences(s, sep))
         IN <<SubSeq(s, 1, k - 1)>> \o Split(DropPrefix(s, k), sep)

\* Path::join for relative right-hand sides
Join(a, b) == a \o "/" \o b

-----------------------------------------------------------------------------
\* targets.rs: the declarative tables.

\* WasmBindgenTarget::as_str; a target is named by this string
WasmBindgenTarget_as_str(t) ==
    CASE t = "Nodejs" -> "nodejs"
      [] t = "Web" -> "web"
      [] t = "Bundler" -> "bundler"

\* the targets without the bundler target
WasmBindgenTarget_all_no_bundler == <<"Nodejs", "Web">>

WasmBindgenTarget_all == <<"Nodejs", "Web", "Bundler">>

dir_name(t) == WasmBindgenTarget_as_str(t)

Environment_all == <<"Node", "Web", "Bundler", "Workerd", "Slim">>

file_stem(env) ==
    CASE env = "Node" -> "node"
      [] env = "Web" -> "web"
      [] env = "Bundler" -> "bundler"
      [] env = "Workerd" -> "workerd"
      [] env = "Iife" -> "index"
      [] env = "Slim" -> "slim"

\* Workerd bound to the bundler output
wasm_bindgen_target_workerd_bundler(env) ==
    CASE env = "Node" -> "Nodejs"
      [] env = "Web" -> "Web"
      [] env = "Bundler" -> "Bundler"
      [] env = "Workerd" -> "Bundler"
      [] env = "Iife" -> "Web"
      [] env = "Slim" -> "Web"

\* every environment but Node bound to the web output
wasm_bindgen_target_web(env) ==
    CASE env = "Node" -> "Nodejs"
      [] OTHER -> "Web"

wasm_bindgen_target(env) ==
    CASE env = "Node" -> "Nodejs"
      [] env = "Web" -> "Web"
      [] env = "Bundler" -> "Bundler"
      [] env = "Workerd" -> "Web"
      [] env = "Iife" -> "Web"
      [] env = "Slim" -> "Web"

init_strategy(env) ==
    CASE env = "Node" -> "AutoNodejs"
      [] env = "Web" -> "Base64Embedded"
      [] env = "Bundler" -> "BundlerPassthrough"
      [] env = "Workerd" -> "SyncWasmImport"
      [] env = "Iife" -> "Base64Embedded"
      [] env = "Slim" -> "Manual"

\* a bundle for the environment that has a wrapper
needs_cjs_bundle_node(env) ==
    CASE env \in {"Node", "Web", "Slim"} -> TRUE
      [] env = "Bundler" -> FALSE
      [] env = "Workerd" -> FALSE
      [] env = "Iife" -> FALSE

\* the flag also set for the Bundler environment
needs_cjs_bundle_bundler(env) ==
    CASE env = "Node" -> FALSE
      [] env \in {"Web", "Slim", "Bundler"} -> TRUE
      [] env = "Workerd" -> FALSE
      [] env = "Iife" -> FALSE

needs_cjs_bundle(env) ==
    CASE env = "Node" -> FALSE
      [] env \in {"Web", "Slim"} -> TRUE
      [] env = "Bundler" -> FALSE
      [] env = "Workerd" -> FALSE
      [] env = "Iife" -> FALSE

ExportCondition_as_str(c) ==
    CASE c = "Node" -> "node"
      [] c = "Browser" -> "browser"
      [] c = "Workerd" -> "workerd"
      [] c = "Import" -> "import"
      [] c = "Require" -> "require"

ExportConditions == {"Node", "Browser", "Workerd", "Import", "Require"}

\* the table with the generic import condition declared first
ROOT_EXPORT_MAPPING_import_first ==
    << [condition |-> "Import", esm |-> "Web", cjs |-> "Web"],
       [condition |-> "Workerd", esm |-> "Workerd", cjs |-> "Web"],
       [condition |-> "Node", esm |-> "Node", cjs |-> "Node"],
       [condition |-> "Browser", esm |-> "Bundler", cjs |-> "Web"],
       [condition |-> "Require", esm |-> "Web", cjs |-> "Web"] >>

\* the table with the node condition served by the Web entrypoints
ROOT_EXPORT_MAPPING_node_web ==
    << [condition |-> "Workerd", esm |-> "Workerd", cjs |-> "Web"],
       [condition |-> "Node", esm |-> "Web", cjs |-> "Web"],
       [condition |-> "Browser", esm |-> "Bundler", cjs |-> "Web"],
       [condition |-> "Import", esm |-> "Web", cjs |-> "Web"],
       [condition |-> "Require", esm |-> "Web", cjs |-> "Web"] >>

\* workerd resolving require to an entrypoint of its own
ROOT_EXPORT_MAPPING_workerd_own ==
    << [condition |-> "Workerd", esm |-> "Workerd", cjs |-> "Workerd"],
       [condition |-> "Node",    esm |-> "Node",    cjs |-> "Node"],
       [condition |-> "Browser", esm |-> "Bundler", cjs |-> "Web"],
       [condition |-> "Import",  esm |-> "Web",     cjs |-> "Web"],
       [condition |-> "Require", esm |-> "Web",     cjs |-> "Web"] >>

ROOT_EXPORT_MAPPING ==
    << [condition |-> "Workerd", esm |-> "Workerd", cjs |-> "Web"],
       [condition |-> "Node",    esm |-> "Node",    cjs |-> "Node"],
       [condition |-> "Browser", esm |-> "Bundler", cjs |-> "Web"],
       [condition |-> "Import",  esm |-> "Web",     cjs |-> "Web"],
       [condition |-> "Require", esm |-> "Web",     cjs |-> "Web"] >>

-----------------------------------------------------------------------------
\* targets.rs, mod paths: paths relative to the output directory.

wasm_bindgen_dir(target) == Join("wasm_bindgen", dir_name(target))

wasm_bindgen_js(target, wasm_name) ==
    LET ext == IF target = "Nodejs" THEN "cjs" ELSE "js"
    IN Join(wasm_bindgen_dir(target), wasm_name \o "." \o ext)

esm_entrypoint(env) == Join("esm", file_stem(env) \o ".js")

cjs_entrypoint(env) == Join("cjs", file_stem(env) \o ".cjs")

iife_bundle == "iife/index.js"

wasm_base64_esm == "esm/wasm-base64.js"

wasm_base64_cjs == "cjs/wasm-base64.cjs"

types == "index.d.ts"

standalone_wasm(package_name) == package_name \o ".wasm"

-----------------------------------------------------------------------------
\* targets.rs: entrypoint content generation.

\* an entrypoint that initializes whatever the strategy
generate_esm_entrypoint_always_init(env, wasm_name) ==
    "import { initSync } from '../wasm_bindgen/web/" \o wasm_name \o ".js';\n"
    \o "import { wasmBase64 } from './wasm-base64.js';\n"
    \o "const bytes = Uint8Array.from(atob(wasmBase64), c => c.charCodeAt(0));\n"
    \o "initSync(bytes);\n"
    \o "export * from '../wasm_bindgen/web/" \o wasm_name \o ".js';\n"

generate_esm_entrypoint(env, wasm_name) ==
    LET target == wasm_bindgen_target(env)
        strategy == init_strategy(env)
    IN CASE strategy = "AutoNodejs" ->
              "export * from '../" \o wasm_bindgen_js(target, wasm_name) \o "';\n"
         [] strategy = "Base64Embedded" ->
              "import { initSync } from '../wasm_bindgen/web/" \o wasm_name \o ".js';\n"
              \o "import { wasmBase64 } from './wasm-base64.js';\n"
              \o "const bytes = Uint8Array.from(atob(wasmBase64), c => c.charCodeAt(0));\n"
              \o "initSync(bytes);\n"
              \o "export * from '../wasm_bindgen/web/" \o wasm_name \o ".js';\n"
         [] strategy = "SyncWasmImport" ->
              "import * as exports from '../wasm_bindgen/web/" \o wasm_name \o ".js';\n"
              \o "import { initSync } from '../wasm_bindgen/web/" \o wasm_name \o ".js';\n"
              \o "import wasmModule from '../wasm_bindgen/web/" \o wasm_name \o "_bg.wasm';\n"
              \o "initSync({ module: wasmModule });\n"
              \o "export * from '../wasm_bindgen/web/" \o wasm_name \o ".js';\n"
         [] strategy = "BundlerPassthrough" ->
              "export * from '../" \o wasm_bindgen_js(target, wasm_name) \o "';\n"
         [] strategy = "Manual" ->
              "export * from '../wasm_bindgen/web/" \o wasm_name \o ".js';\n"
              \o "export { default } from '../wasm_bindgen/web/" \o wasm_name \o ".js';\n"

\* a CommonJS entrypoint synthesized for every environment
generate_cjs_entrypoint_every(env, wasm_name) ==
    << "module.exports = require('../"
       \o wasm_bindgen_js("Nodejs", wasm_name) \o "');\n" >>

\* Option<String>: None is the empty sequence, Some(s) is <<s>>
generate_cjs_entrypoint(env, wasm_name) ==
    IF env = "Node"
    THEN << "module.exports = require('../"
            \o wasm_bindgen_js("Nodejs", wasm_name) \o "');\n" >>
    ELSE << >>

-----------------------------------------------------------------------------
\* serde_json values.  An object is the sequence of its <<key, value>>
\* entries in the order the map keeps them.

JStr(s) == [t |-> "str", s |-> s]
JNum(n) == [t |-> "num", n |-> n]
JArr(a) == [t |-> "arr", a |-> a]
JObj(o) == [t |-> "obj", o |-> o]

\* Map::get: Option<&Value>, None is << >>
MapGet(o, k) ==
    LET hits == SelectSeq(o, LAMBDA e : e[1] = k)
    IN IF hits = << >> THEN << >> ELSE << hits[1][2] >>

\* Map::insert of an order-preserving map: an existing key keeps its
\* position and takes the new value, a new key is appended.
MapInsert(o, k, v) ==
    IF \E i \in 1..Len(o) : o[i][1] = k
    THEN [i \in 1..Len(o) |-> IF o[i][1] = k THEN <<k, v>> ELSE o[i]]
    ELSE Append(o, <<k, v>>)

MapKeys(o) == [i \in 1..Len(o) |-> o[i][1]]

-----------------------------------------------------------------------------
\* package_json.rs

\* the closure p of build_exports_map
p(dist, path) == "./" \o dist \o "/" \o path

\* an iteration that gives every condition the single ESM path
root_export_insert_flat(root_export, mapping, dist) ==
    MapInsert(root_export, ExportCondition_as_str(mapping.condition),
              JStr(p(dist, esm_entrypoint(mapping.esm))))

\* one iteration of the loop over ROOT_EXPORT_MAPPING
root_export_insert(root_export, mapping, dist) ==
    LET esm_path == p(dist, esm_entrypoint(mapping.esm))
        cjs_path == p(dist, cjs_entrypoint(mapping.cjs))
    IN CASE mapping.condition = "Import" ->
              MapInsert(root_export, "import", JStr(esm_path))
         [] mapping.condition = "Require" ->
              MapInsert(root_export, "require", JStr(cjs_path))
         [] OTHER ->
              MapInsert(root_export, ExportCondition_as_str(mapping.condition),
                        JObj(<< <<"import", JStr(esm_path)>>,
                                <<"require", JStr(cjs_path)>> >>))

RECURSIVE root_export_loop(_, _, _)
root_export_loop(root_export, mappings, dist) ==
    IF mappings = << >> THEN root_export
    ELSE root_export_loop(root_export_insert(root_export, Head(mappings), dist),
                          Tail(mappings), dist)

build_exports_map(dist, package_name) ==
    LET root_export ==
            root_export_loop(MapInsert(<< >>, "types", JStr(p(dist, types))),
                             ROOT_EXPORT_MAPPING, dist)
    IN JObj(<<
         <<".", JObj(root_export)>>,
         <<"./slim", JObj(<< <<"types", JStr(p(dist, types))>>,
                             <<"import", JStr(p(dist, esm_entrypoint("Slim")))>>,
                             <<"require", JStr(p(dist, cjs_entrypoint("Slim")))>> >>)>>,
         <<"./wasm", JStr(p(dist, standalone_wasm(package_name)))>>,
         <<"./wasm-base64", JObj(<< <<"import", JStr(p(dist, wasm_base64_esm))>>,
                                    <<"require", JStr(p(dist, wasm_base64_cjs))>> >>)>>,
         <<"./iife", JStr(p(dist, iife_bundle))>> >>)

\* the Vec<String> read from "files": the string elements of an array, else empty
files_vec(package_obj) ==
    LET got == MapGet(package_obj, "files")
    IN IF got # << >> /\ got[1].t = "arr"
       THEN LET strs == SelectSeq(got[1].a, LAMBDA v : v.t = "str")
            IN [i \in 1..Len(strs) |-> strs[i].s]
       ELSE << >>

\* the guard without the test for subpaths
dist_listed_exact(files, dist) ==
    \E i \in 1..Len(files) : files[i] = dist

\* the guard that never finds the output directory listed
dist_listed_never(files, dist) == FALSE

\* the test that guards files.push(dist)
dist_listed(files, dist) ==
    \E i \in 1..Len(files) :
        files[i] = dist \/ StartsWith(files[i], dist \o "/")

\* the files update without the guard: the output directory is always pushed
update_files_array_unguarded(package_obj, dist) ==
    LET files == Append(files_vec(package_obj), dist)
    IN MapInsert(package_obj, "files",
                 JArr([i \in 1..Len(files) |-> JStr(files[i])]))

update_files_array(package_obj, dist) ==
    LET files == files_vec(package_obj)
        pushed == IF ~dist_listed(files, dist) THEN Append(files, dist) ELSE files
    IN MapInsert(package_obj, "files",
                 JArr([i \in 1..Len(pushed) |-> JStr(pushed[i])]))

\* update as a regeneration: a new object that takes over only name and files
update_regenerated(package_obj, dist, package_name) ==
    LET o0 == SelectSeq(package_obj, LAMBDA e : e[1] \in {"name", "files"})
        o1 == MapInsert(o0, "type", JStr("module"))
        o2 == MapInsert(o1, "main", JStr(p(dist, cjs_entrypoint("Node"))))
        o3 == MapInsert(o2, "module", JStr(p(dist, esm_entrypoint("Bundler"))))
        o4 == MapInsert(o3, "types", JStr(p(dist, types)))
        o5 == update_files_array(o4, dist)
    IN MapInsert(o5, "exports", build_exports_map(dist, package_name))

\* update, from the parsed object to the value that is serialized
update(package_obj, dist, package_name) ==
    LET o1 == MapInsert(package_obj, "type", JStr("module"))
        o2 == MapInsert(o1, "main", JStr(p(dist, cjs_entrypoint("Node"))))
        o3 == MapInsert(o2, "module", JStr(p(dist, esm_entrypoint("Bundler"))))
        o4 == MapInsert(o3, "types", JStr(p(dist, types)))
        o5 == update_files_array(o4, dist)
    IN MapInsert(o5, "exports", build_exports_map(dist, package_name))

-----------------------------------------------------------------------------
\* The file system.  fs maps each existing path to its content.

Dir == [k |-> "dir"]
Text(s) == [k |-> "text", text |-> s]
Bytes(b) == [k |-> "bytes", bytes |-> b]
\* a package.json whose text parses to json; fmt tells the user's own
\* formatting from the output of to_string_pretty
JsonFile(v, fmt) == [k |-> "json", json |-> v, fmt |-> fmt]
\* a Cargo.toml whose text parses; name is the Option package.name
TomlFile(name) == [k |-> "toml", name |-> name]
Archive == [k |-> "archive"]
\* what a write that failed after truncating the file leaves behind
Partial == [k |-> "partial"]
\* the output of one esbuild invocation
Bundle(format, global_name, platform, entry, src) ==
    [k |-> "bundle", format |-> format, global_name |-> global_name,
     platform |-> platform, entry |-> entry, src |-> src]

Exists(f, path) == path \in DOMAIN f

Put(f, path, c) == [q \in DOMAIN f \cup {path} |-> IF q = path THEN c ELSE f[q]]

Remove(f, path) == [q \in DOMAIN f \ {path} |-> f[q]]

\* Path::parent of a path without trailing separator ("" when there is none)
Parent(path) ==
    LET slashes == Occurrences(path, "/")
    IN IF slashes = {} THEN ""
       ELSE SubSeq(path, 1, (CHOOSE i \in slashes : \A j \in slashes : j <= i) - 1)

IsDir(f, path) == Exists(f, path) /\ f[path].k = "dir"

RECURSIVE MissingDirs(_, _)
\* the directories create_dir_all(path) has to create
MissingDirs(f, path) ==
    IF path = "" \/ Exists(f, path) THEN {}
    ELSE {path} \cup MissingDirs(f, Parent(path))

\* a file-system effect, as the run's history records it
Ev(kind, path, by, complete) ==
    [kind |-> kind, path |-> path, by |-> by, complete |-> complete]

\* The outcomes of an operation: whether it returned Ok, the file system it
\* leaves, the effects it had, and what failed.
Outcome(ok, f, ev, what) == [ok |-> ok, fs |-> f, ev |-> ev, what |-> what]

\* std::fs::create_dir_all
create_dir_all(f, path) ==
    LET new == MissingDirs(f, path)
        made == [q \in DOMAIN f \cup new |-> IF q \in new THEN Dir ELSE f[q]]
    IN { Outcome(TRUE, made,
                 IF new = {} THEN << >> ELSE <<Ev("mkdir", path, "self", TRUE)>>, ""),
         Outcome(FALSE, f, << >>, "create_dir_all " \o path) }

\* std::fs::write: File::create truncates, then write_all.  It fails before
\* touching the file, or after truncating it.
fs_write(f, path, content) ==
    IF ~IsDir(f, Parent(path))
    THEN { Outcome(FALSE, f, << >>, "write " \o path) }
    ELSE { Outcome(TRUE, Put(f, path, content),
                   <<Ev("write", path, "self", TRUE)>>, ""),
           Outcome(FALSE, f, << >>, "write " \o path),
           Outcome(FALSE, Put(f, path, Partial),
                   <<Ev("write", path, "self", FALSE)>>, "write " \o path) }

\* std::fs::copy, for an existing source
fs_copy(f, src, dst) == fs_write(f, dst, f[src])

\* a rename that leaves the source in place
fs_rename_copy(f, src, dst) ==
    { Outcome(TRUE, Put(f, dst, f[src]),
              <<Ev("rename", src, "self", TRUE), Ev("write", dst, "self", TRUE)>>, ""),
      Outcome(FALSE, f, << >>, "rename " \o src) }

\* std::fs::rename, for an existing source
fs_rename(f, src, dst) ==
    { Outcome(TRUE, Put(Remove(f, src), dst, f[src]),
              <<Ev("rename", src, "self", TRUE), Ev("write", dst, "self", TRUE)>>, ""),
      Outcome(FALSE, f, << >>, "rename " \o src) }

\* The results of reading a file: << >> is an Err, <<c>> the content read.
\* A read of an existing file can still fail (an I/O error).
fs_read(f, path) ==
    IF Exists(f, path) /\ f[path].k # "dir" THEN { << >>, <<f[path]>> } ELSE { << >> }

\* read_to_string of a content; a truncated file reads as the empty prefix
TextOf(c) == IF c.k = "text" THEN c.text ELSE ""

\* std::fs::read of a content
BytesOf(c) == IF c.k = "bytes" THEN c.bytes ELSE << >>

-----------------------------------------------------------------------------
\* Conversions.

\* the URL-safe alphabet
B64Alphabet_url_safe ==
    "ABCDEFGHIJKLMNOPQRSTUVWXYZabcdefghijklmnopqrstuvwxyz0123456789-_"

B64Alphabet == "ABCDEFGHIJKLMNOPQRSTUVWXYZabcdefghijklmnopqrstuvwxyz0123456789+/"

B64Char(i) == SubSeq(B64Alphabet, i + 1, i + 1)

RECURSIVE base64_encode(_)
\* general_purpose::STANDARD.encode: standard alphabet, padded, no wrapping.
\* Each group of three bytes gives four characters; a long input is encoded
\* as two halves cut at a multiple of three.
base64_encode(b) ==
    IF Len(b) = 0 THEN ""
    ELSE IF Len(b) = 1
         THEN B64Char(b[1] \div 4) \o B64Char((b[1] % 4) * 16) \o "=="
    ELSE IF Len(b) = 2
         THEN B64Char(b[1] \div 4) \o B64Char((b[1] % 4) * 16 + b[2] \div 16)
              \o B64Char((b[2] % 16) * 4) \o "="
    ELSE IF Len(b) = 3
         THEN B64Char(b[1] \div 4) \o B64Char((b[1] % 4) * 16 + b[2] \div 16)
              \o B64Char((b[2] % 16) * 4 + b[3] \div 64) \o B64Char(b[3] % 64)
    ELSE LET cut == 3 * ((Len(b) + 5) \div 6)
         IN base64_encode(SubSeq(b, 1, cut)) \o base64_encode(SubSeq(b, cut + 1, Len(b)))

LowerLetters == "abcdefghijklmnopqrstuvwxyz"
UpperLetters == "ABCDEFGHIJKLMNOPQRSTUVWXYZ"

\* char::to_uppercase on one character
Upper(c) ==
    IF Occurrences(LowerLetters, c) = {} THEN c
    ELSE LET i == Least(Occurrences(LowerLetters, c))
         IN SubSeq(UpperLetters, i, i)

RECURSIVE Capitalized(_)
\* the words of a sequence, each with its first letter in upper case, joined
Capitalized(words) ==
    IF words = << >> THEN ""
    ELSE LET w == Head(words)
         IN (IF w = "" THEN ""
             ELSE Upper(SubSeq(w, 1, 1)) \o DropPrefix(w, 1))
            \o Capitalized(Tail(words))

\* the name with its separators removed and no letter changed
to_pascal_case_flat(name) == Replace(Replace(name, "_", ""), "-", "")

\* heck::ToPascalCase on a lower-case name whose words are separated by - or _
to_pascal_case(name) == Capitalized(Split(Replace(name, "_", "-"), "-"))

-----------------------------------------------------------------------------
\* The external tools, at their interface.

\* the files wasm-bindgen writes into the directory of one target
wasm_bindgen_output(target, wasm_name, wasm) ==
    LET js == CASE target = "Nodejs" ->
                     "const { readFileSync } = require('fs');\n"
                     \o "module.exports.greet = function() {};\n"
                [] target = "Web" ->
                     "export function greet() {}\n"
                     \o "export function initSync(module) {}\n"
                     \o "export default async function __wbg_init(input) {\n"
                     \o "  input = new URL('" \o wasm_name \o "_bg.wasm', import.meta.url);\n"
                     \o "  other = new URL('other_bg.wasm', import.meta.url);\n"
                     \o "}\n"
                [] target = "Bundler" ->
                     "import * as wasm from './" \o wasm_name \o "_bg.wasm';\n"
                     \o "export * from './" \o wasm_name \o "_bg.js';\n"
    IN ( (wasm_name \o ".js") :> Text(js) )
       @@ ( (wasm_name \o ".d.ts") :> Text("export function greet(): string;\n") )
       @@ ( (wasm_name \o "_bg.wasm") :> Bytes(wasm) )

\* the entries of a complete prebuilt archive, relative to wasm_bindgen/
full_archive(wasm_name, wasm) ==
    LET names == { (wasm_name \o ".js"), (wasm_name \o ".d.ts"), (wasm_name \o "_bg.wasm") }
        entries == { <<t, n>> : t \in {"Nodejs", "Web", "Bundler"}, n \in names }
    IN [ q \in { Join(dir_name(e[1]), e[2]) : e \in entries } |->
           LET e == CHOOSE e \in entries : Join(dir_name(e[1]), e[2]) = q
           IN wasm_bindgen_output(e[1], wasm_name, wasm)[e[2]] ]

\* tar -xzf tarball -C dest: every entry lands under dest, with its directories
tar_extract(f, archive, dest) ==
    LET files == { Join(dest, q) : q \in DOMAIN archive }
        dirs == UNION { MissingDirs(f, Parent(x)) : x \in files }
    IN [ x \in DOMAIN f \cup files \cup dirs |->
           IF x \in files
           THEN archive[DropPrefix(x, Len(dest) + 1)]
           ELSE IF x \in dirs THEN Dir ELSE f[x] ]

\* wasm-bindgen <wasm> --out-dir target_dir: its files land in target_dir
bindgen_write(f, target_dir, out) ==
    [ x \in DOMAIN f \cup { Join(target_dir, n) : n \in DOMAIN out } |->
        IF \E n \in DOMAIN out : x = Join(target_dir, n)
        THEN out[DropPrefix(x, Len(target_dir) + 1)]
        ELSE f[x] ]

-----------------------------------------------------------------------------
\* The run of build::run as a program: the sequence of its steps.  A step is
\* one call (or one loop iteration) of the code; arg is the loop element.

Step(op) == [op |-> op, arg |-> ""]

Each(op, elems) == [i \in 1..Len(elems) |-> [op |-> op, arg |-> elems[i]]]

\* wasm_bindgen::build_wasm
build_wasm_steps ==
    << Step("cargo_build"), Step("find_target_dir"), Step("build_wasm_crate_name"),
       Step("check_wasm_file"), Step("create_wasm_bindgen_dir") >>
    \o Each("run_wasm_bindgen", WasmBindgenTarget_all)

\* post_process::run
post_process_steps ==
    << Step("rename_nodejs"), Step("apply_vite_fix"), Step("generate_base64_module") >>

\* bundling that looks for esbuild only after the first build
bundle_with_esbuild_steps_late_find ==
    << Step("bundle_iife"), Step("find_esbuild") >> \o Each("bundle_cjs", Environment_all)

\* entrypoints::bundle_with_esbuild
bundle_with_esbuild_steps ==
    << Step("find_esbuild"), Step("bundle_iife") >> \o Each("bundle_cjs", Environment_all)

\* bundling ahead of the synthesis of the entrypoints
generate_steps_bundle_first ==
    << Step("create_entry_dirs") >>
    \o bundle_with_esbuild_steps
    \o Each("write_esm", Environment_all)
    \o Each("write_cjs", Environment_all)

\* entrypoints::generate
generate_steps ==
    << Step("create_entry_dirs") >>
    \o Each("write_esm", Environment_all)
    \o Each("write_cjs", Environment_all)
    \o bundle_with_esbuild_steps

\* finalize::run
finalize_steps ==
    << Step("relative_out_dir"), Step("update_package_json"), Step("copy_types"),
       Step("copy_wasm"), Step("generate_cjs_base64") >>

\* build::run with the post-processing moved behind the entrypoints
Program_post_process_last(c) ==
    << Step("create_out_dir") >>
    \o (IF c.wasm_bindgen_tar # << >>
        THEN << Step("extract_tarball") >>
        ELSE build_wasm_steps)
    \o << Step("get_crate_name"), Step("get_package_name") >>
    \o generate_steps
    \o post_process_steps
    \o finalize_steps

\* build::run
Program(c) ==
    << Step("create_out_dir") >>
    \o (IF c.wasm_bindgen_tar # << >>
        THEN << Step("extract_tarball") >>
        ELSE build_wasm_steps)
    \o << Step("get_crate_name"), Step("get_package_name") >>
    \o post_process_steps
    \o generate_steps
    \o finalize_steps

\* The phase a step belongs to: the println! banners of build::run, with the
\* bundling part of Phase 3 told apart.
PhaseOf(op) ==
    CASE op \in {"extract_tarball", "cargo_build", "find_target_dir",
                 "build_wasm_crate_name", "check_wasm_file",
                 "create_wasm_bindgen_dir", "run_wasm_bindgen"} -> "obtain"
      [] op \in {"rename_nodejs", "apply_vite_fix", "generate_base64_module"}
           -> "post_process"
      [] op \in {"create_entry_dirs", "write_esm", "write_cjs"} -> "entrypoints"
      [] op \in {"find_esbuild", "bundle_iife", "bundle_cjs"} -> "bundle"
      [] op \in {"relative_out_dir", "update_package_json", "copy_types",
                 "copy_wasm", "generate_cjs_base64"} -> "finalize"
      [] OTHER -> "orchestrate"

\* a call whose result is dropped instead of propagated
Try_ignored(ok) == TRUE

\* The ? operator at a call: the run goes on exactly when the call returned Ok.
Try(ok) == ok

-----------------------------------------------------------------------------
\* Names and paths the run derives.

Cur == Program(config)[pc]

Running(op) == status = "running" /\ Cur.op = op

\* crate_name.replace('-', "_")
wasm_name_of(crate_name) == Replace(crate_name, "-", "_")

WasmName == wasm_name_of(locals.crate_name)

\* an output path taken relative to the crate instead of the output directory
OutPath_in_crate(rel) == Join(config.crate_path, rel)

OutPath(rel) == Join(config.out_dir, rel)

WasmBindgenDir == Join(config.out_dir, "wasm_bindgen")

CargoToml == Join(config.crate_path, "Cargo.toml")

\* the current directory of the process
Cwd == "/w"

\* Path::canonicalize of an existing path given relative to the current directory
canonicalize(path) ==
    IF path = "." THEN Cwd
    ELSE IF StartsWith(path, "./") THEN Cwd \o DropPrefix(path, 1)
    ELSE IF StartsWith(path, "/") THEN path
    ELSE Join(Cwd, path)

\* pathdiff::diff_paths(path, base) for a path at or below base
diff_paths(path, base) ==
    IF path = base THEN ""
    ELSE IF StartsWith(path, base \o "/") THEN DropPrefix(path, Len(base) + 1)
    ELSE path

\* what is left when an operation with outcome n ran on what o left
Chain(o, n) == Outcome(n.ok, n.fs, o.ev \o n.ev, n.what)

\* sequencing with ?: the next operation, whose outcomes on o.fs are after,
\* runs only when o is Ok
Then(o, after) == IF o.ok THEN { Chain(o, n) : n \in after } ELSE { o }

\* an operation that touches nothing
Skip(f) == { Outcome(TRUE, f, << >>, "") }

\* an external process: it cannot be started, exits non-zero, or exits zero
\* leaving the file system done
Spawn(f, tool, path, done) ==
    { Outcome(FALSE, f, <<Ev("invoke", path, tool, FALSE)>>, "Failed to run " \o tool),
      Outcome(FALSE, f, <<Ev("invoke", path, tool, FALSE)>>, tool \o " failed"),
      Outcome(TRUE, done, <<Ev("invoke", path, tool, TRUE),
                            Ev("write", path, tool, TRUE)>>, "") }

-----------------------------------------------------------------------------
\* The steps of the run.

NoLocals ==
    [crate_name |-> "", package_name |-> "", bw_crate_name |-> "",
     target_dir |-> "", wasm_file |-> "", esbuild |-> "", out_dir_rel |-> ""]

Failure(what) == [op |-> Cur.op, arg |-> Cur.arg, step |-> pc, what |-> what]

\* the history entries of a step: the step itself, then its effects
Tagged(ok, ev) ==
    LET all == << Ev("step", Cur.arg, "self", ok) >> \o ev
    IN [i \in 1..Len(all) |->
          [kind |-> all[i].kind, path |-> all[i].path, by |-> all[i].by,
           complete |-> all[i].complete, op |-> Cur.op,
           phase |-> PhaseOf(Cur.op), step |-> pc]]

\* The end of a step: res is the outcome of its operation, newLocals the
\* local values on success, soft the failures the code tolerated on the way.
Conclude(res, newLocals, soft) ==
    /\ fs' = res.fs
    /\ log' = log \o Tagged(res.ok, res.ev)
    /\ failures' = failures \o soft
                   \o (IF res.ok THEN << >> ELSE << Failure(res.what) >>)
    /\ IF Try(res.ok)
       THEN /\ pc' = pc + 1
            /\ status' = IF pc = Len(Program(config)) THEN "done" ELSE "running"
            /\ locals' = newLocals
       ELSE /\ pc' = pc
            /\ status' = "failed"
            /\ locals' = locals
    /\ UNCHANGED <<config, world, fs0, runs>>
    /\ UNCHANGED mergeVars

Err(what) == Outcome(FALSE, fs, << >>, what)

\* a file an external tool writes, with the directories it needs
tool_write(f, path, content) ==
    LET dirs == MissingDirs(f, Parent(path))
    IN [ x \in DOMAIN f \cup dirs \cup {path} |->
           IF x = path THEN content ELSE IF x \in dirs THEN Dir ELSE f[x] ]

\* get_crate_name (mod.rs and wasm_bindgen.rs): << >> for an Err
crate_name_results ==
    { IF r = << >> \/ r[1].k # "toml" \/ r[1].name = << >> THEN << >> ELSE r[1].name
      : r \in fs_read(fs, CargoToml) }

CreateOutDir ==
    /\ Running("create_out_dir")
    /\ \E res \in create_dir_all(fs, config.out_dir) : Conclude(res, locals, << >>)

ExtractTarball ==
    /\ Running("extract_tarball")
    /\ \E res \in UNION { Then(o, Spawn(o.fs, "tar", WasmBindgenDir,
                                        tar_extract(o.fs, world.archive, WasmBindgenDir)))
                          : o \in create_dir_all(fs, WasmBindgenDir) } :
          Conclude(res, locals, << >>)

\* where cargo puts the compiled binary
cargo_wasm_file(target_dir, crate_name) ==
    Join(Join(Join(target_dir, "wasm32-unknown-unknown"), config.profile),
         Replace(crate_name, "-", "_") \o ".wasm")

CargoBuild ==
    /\ Running("cargo_build")
    /\ LET out == cargo_wasm_file(world.target_directory, world.crate_name)
       IN \E res \in Spawn(fs, "cargo", out, tool_write(fs, out, Bytes(world.wasm))) :
             Conclude(res, locals, << >>)

\* find_target_dir: cargo metadata, with the crate-local fallback
FindTargetDir ==
    /\ Running("find_target_dir")
    /\ LET fallback == Join(config.crate_path, "target")
       IN \/ \E what \in {"Failed to run cargo metadata", "Failed to parse cargo metadata"} :
               Conclude(Err(what), locals, << >>)
          \/ Conclude(Outcome(TRUE, fs, << >>, ""),
                      [locals EXCEPT !.target_dir = fallback],
                      << Failure("cargo metadata exited non-zero") >>)
          \/ \E dir \in {world.target_directory, fallback} :
               Conclude(Outcome(TRUE, fs, << >>, ""),
                        [locals EXCEPT !.target_dir = dir], << >>)

BuildWasmCrateName ==
    /\ Running("build_wasm_crate_name")
    /\ \E r \in crate_name_results :
          IF r = << >>
          THEN Conclude(Err("Cargo.toml"), locals, << >>)
          ELSE Conclude(Outcome(TRUE, fs, << >>, ""),
                        [locals EXCEPT !.bw_crate_name = r[1]], << >>)

CheckWasmFile ==
    /\ Running("check_wasm_file")
    /\ LET wasm_file == cargo_wasm_file(locals.target_dir, locals.bw_crate_name)
       IN IF Exists(fs, wasm_file)
          THEN Conclude(Outcome(TRUE, fs, << >>, ""),
                        [locals EXCEPT !.wasm_file = wasm_file], << >>)
          ELSE Conclude(Err("Wasm file not found"), locals, << >>)

CreateWasmBindgenDir ==
    /\ Running("create_wasm_bindgen_dir")
    /\ \E res \in create_dir_all(fs, WasmBindgenDir) : Conclude(res, locals, << >>)

RunWasmBindgen ==
    /\ Running("run_wasm_bindgen")
    /\ LET target_dir == Join(WasmBindgenDir, dir_name(Cur.arg))
           stem == Replace(locals.bw_crate_name, "-", "_")
       IN \E res \in UNION { Then(o, Spawn(o.fs, "wasm-bindgen", target_dir,
                                 bindgen_write(o.fs, target_dir,
                                     wasm_bindgen_output(Cur.arg, stem,
                                                         BytesOf(o.fs[locals.wasm_file])))))
                             : o \in create_dir_all(fs, target_dir) } :
             Conclude(res, locals, << >>)

GetCrateName ==
    /\ Running("get_crate_name")
    /\ \E r \in crate_name_results :
          IF r = << >>
          THEN Conclude(Err("Cargo.toml"), locals, << >>)
          ELSE Conclude(Outcome(TRUE, fs, << >>, ""),
                        [locals EXCEPT !.crate_name = r[1]], << >>)

\* parsed["name"].as_str(), else crate_name.replace('_', "-")
package_name_of(content, crate_name) ==
    LET named == IF content.json.t = "obj" THEN MapGet(content.json.o, "name") ELSE << >>
    IN IF named # << >> /\ named[1].t = "str"
       THEN named[1].s
       ELSE Replace(crate_name, "_", "-")

GetPackageName ==
    /\ Running("get_package_name")
    /\ \E r \in fs_read(fs, config.package_json) :
          IF r = << >> THEN Conclude(Err("Failed to read package.json"), locals, << >>)
          ELSE IF r[1].k # "json"
          THEN Conclude(Err("Failed to parse package.json"), locals, << >>)
          ELSE Conclude(Outcome(TRUE, fs, << >>, ""),
                        [locals EXCEPT !.package_name =
                                          package_name_of(r[1], locals.crate_name)],
                        << >>)

\* ---- post_process.rs ----

RenameNodejs ==
    /\ Running("rename_nodejs")
    /\ LET nodejs_dir == Join(WasmBindgenDir, dir_name("Nodejs"))
           js_file == Join(nodejs_dir, WasmName \o ".js")
           cjs_file == Join(nodejs_dir, WasmName \o ".cjs")
       IN \E res \in (IF Exists(fs, js_file)
                      THEN fs_rename(fs, js_file, cjs_file)
                      ELSE Skip(fs)) :
             Conclude(res, locals, << >>)

\* Regex::replace: the first occurrence only
vite_fix_first(content, wasm_name) ==
    LET from == "new URL('" \o wasm_name \o "_bg.wasm', import.meta.url)"
        at == Occurrences(content, from)
    IN IF at = {} THEN content
       ELSE SubSeq(content, 1, Least(at) - 1)
            \o "new /* @vite-ignore */ URL('" \o wasm_name \o "_bg.wasm', import.meta.url)"
            \o DropPrefix(content, Least(at) + Len(from) - 1)

\* the text apply_vite_fix writes for the text it read
vite_fix(content, wasm_name) ==
    Replace(content,
            "new URL('" \o wasm_name \o "_bg.wasm', import.meta.url)",
            "new /* @vite-ignore */ URL('" \o wasm_name \o "_bg.wasm', import.meta.url)")

apply_vite_fix(f, web_dir, wasm_name) ==
    LET js_file == Join(web_dir, wasm_name \o ".js")
    IN UNION { IF r = << >>
               THEN { Outcome(FALSE, f, << >>, "Failed to read wasm-bindgen JS file") }
               ELSE fs_write(f, js_file, Text(vite_fix(TextOf(r[1]), wasm_name)))
               : r \in fs_read(f, js_file) }

ApplyViteFix ==
    /\ Running("apply_vite_fix")
    /\ \E res \in apply_vite_fix(fs, Join(WasmBindgenDir, dir_name("Web")), WasmName) :
          Conclude(res, locals, << >>)

\* the text of the ESM base64 module
esm_base64_content(wasm_bytes) ==
    "export const wasmBase64 = \"" \o base64_encode(wasm_bytes) \o "\";\n"

generate_base64_module(f, web_dir, out_dir, wasm_name) ==
    LET wasm_file == Join(web_dir, wasm_name \o "_bg.wasm")
        esm_base64_path == Join(out_dir, wasm_base64_esm)
    IN UNION { IF r = << >>
               THEN { Outcome(FALSE, f, << >>, "Failed to read wasm file") }
               ELSE UNION { Then(o, fs_write(o.fs, esm_base64_path,
                                             Text(esm_base64_content(BytesOf(r[1])))))
                            : o \in create_dir_all(f, Parent(esm_base64_path)) }
               : r \in fs_read(f, wasm_file) }

GenerateBase64Module ==
    /\ Running("generate_base64_module")
    /\ \E res \in generate_base64_module(fs, Join(WasmBindgenDir, dir_name("Web")),
                                         config.out_dir, WasmName) :
          Conclude(res, locals, << >>)

\* ---- entrypoints.rs ----

CreateEntryDirs ==
    /\ Running("create_entry_dirs")
    /\ LET esm == create_dir_all(fs, OutPath("esm"))
           cjs == UNION { Then(o, create_dir_all(o.fs, OutPath("cjs"))) : o \in esm }
       IN \E res \in UNION { Then(o, create_dir_all(o.fs, OutPath("iife"))) : o \in cjs } :
          Conclude(res, locals, << >>)

WriteEsm ==
    /\ Running("write_esm")
    /\ \E res \in fs_write(fs, Join(OutPath("esm"), file_stem(Cur.arg) \o ".js"),
                           Text(generate_esm_entrypoint(Cur.arg, WasmName))) :
          Conclude(res, locals, << >>)

WriteCjs ==
    /\ Running("write_cjs")
    /\ LET content == generate_cjs_entrypoint(Cur.arg, WasmName)
       IN \E res \in (IF content # << >>
                      THEN fs_write(fs, Join(OutPath("cjs"), file_stem(Cur.arg) \o ".cjs"),
                                    Text(content[1]))
                      ELSE Skip(fs)) :
             Conclude(res, locals, << >>)

esbuild_candidates ==
    << "esbuild", "./node_modules/.bin/esbuild", "../node_modules/.bin/esbuild" >>

\* find_esbuild: the candidates are probed in order; found is the index of the
\* first whose --version succeeds, 0 when none does
FindEsbuild ==
    /\ Running("find_esbuild")
    /\ \E found \in 0..Len(esbuild_candidates) :
          LET tried == IF found = 0 THEN Len(esbuild_candidates) ELSE found - 1
              probes == [i \in 1..tried |->
                            Failure(esbuild_candidates[i] \o " --version failed")]
          IN IF found = 0
             THEN Conclude(Err("esbuild not found"), locals, probes)
             ELSE Conclude(Outcome(TRUE, fs, << >>, ""),
                           [locals EXCEPT !.esbuild = esbuild_candidates[found]],
                           probes)

\* run_esbuild: the bundler reads its input, so it can exit zero only when
\* the input exists
run_esbuild(f, esbuild, input, output, format, global_name) ==
    LET platform == IF format = "cjs" THEN <<"node">> ELSE << >>
        all == Spawn(f, "esbuild", output,
                     tool_write(f, output,
                                Bundle(format, global_name, platform, input,
                                       IF Exists(f, input) THEN TextOf(f[input]) ELSE "")))
    IN IF Exists(f, input) THEN all ELSE { o \in all : ~o.ok }

BundleIife ==
    /\ Running("bundle_iife")
    /\ LET esm_web == OutPath(esm_entrypoint("Web"))
           iife_output == OutPath(iife_bundle)
           global_name == to_pascal_case(locals.crate_name)
       IN \E res \in run_esbuild(fs, locals.esbuild, esm_web, iife_output,
                                 "iife", <<global_name>>) :
             Conclude(res, locals, << >>)

BundleCjs ==
    /\ Running("bundle_cjs")
    /\ \E res \in (IF needs_cjs_bundle(Cur.arg)
                   THEN run_esbuild(fs, locals.esbuild,
                                    OutPath(esm_entrypoint(Cur.arg)),
                                    OutPath(cjs_entrypoint(Cur.arg)), "cjs", << >>)
                   ELSE Skip(fs)) :
          Conclude(res, locals, << >>)

\* ---- finalize.rs ----

\* the relative path from the manifest's directory to the output directory
RelativeOutDir ==
    /\ Running("relative_out_dir")
    /\ LET package_dir == Parent(config.package_json)
       IN \/ \E what \in {"Failed to canonicalize package.json directory",
                          "Failed to canonicalize out_dir"} :
               Conclude(Err(what), locals, << >>)
          \/ /\ Exists(fs, package_dir) /\ Exists(fs, config.out_dir)
             /\ Conclude(Outcome(TRUE, fs, << >>, ""),
                         [locals EXCEPT !.out_dir_rel =
                             diff_paths(canonicalize(config.out_dir),
                                        canonicalize(package_dir))],
                         << >>)

\* package_json::update on the file system
package_json_update(f, package_json_path, out_dir_rel, package_name) ==
    UNION { IF r = << >>
            THEN { Outcome(FALSE, f, << >>, "Failed to read package.json") }
            ELSE IF r[1].k # "json"
            THEN { Outcome(FALSE, f, << >>, "Failed to parse package.json") }
            ELSE IF r[1].json.t # "obj"
            THEN { Outcome(FALSE, f, << >>, "package.json must be an object") }
            ELSE fs_write(f, package_json_path,
                          JsonFile(JObj(update(r[1].json.o, out_dir_rel, package_name)),
                                   "pretty"))
            : r \in fs_read(f, package_json_path) }

UpdatePackageJson ==
    /\ Running("update_package_json")
    /\ \E res \in package_json_update(fs, config.package_json, locals.out_dir_rel,
                                      locals.package_name) :
          Conclude(res, locals, << >>)

copy_types(f, out_dir, wasm_name) ==
    LET dts_src == Join(Join(out_dir, wasm_bindgen_dir("Nodejs")), wasm_name \o ".d.ts")
        dts_dest == Join(out_dir, types)
    IN IF Exists(f, dts_src) THEN fs_copy(f, dts_src, dts_dest) ELSE Skip(f)

CopyTypes ==
    /\ Running("copy_types")
    /\ \E res \in copy_types(fs, config.out_dir, WasmName) : Conclude(res, locals, << >>)

copy_wasm(f, out_dir, wasm_name, package_name) ==
    LET wasm_src == Join(Join(out_dir, wasm_bindgen_dir("Web")), wasm_name \o "_bg.wasm")
        wasm_dest == Join(out_dir, standalone_wasm(package_name))
    IN IF Exists(f, wasm_src) THEN fs_copy(f, wasm_src, wasm_dest) ELSE Skip(f)

CopyWasm ==
    /\ Running("copy_wasm")
    /\ \E res \in copy_wasm(fs, config.out_dir, WasmName, locals.package_name) :
          Conclude(res, locals, << >>)

\* a copy that drops the padding of the payload
generate_cjs_base64_unpadded(f, out_dir) ==
    UNION { IF r = << >>
            THEN { Outcome(FALSE, f, << >>, "read esm/wasm-base64.js") }
            ELSE LET pieces == Split(TextOf(r[1]), "\"")
                 IN IF Len(pieces) < 2
                    THEN { Outcome(FALSE, f, << >>, "Failed to parse base64 from ESM module") }
                    ELSE fs_write(f, Join(out_dir, wasm_base64_cjs),
                                  Text("module.exports.wasmBase64 = \""
                                       \o Replace(pieces[2], "=", "") \o "\";\n"))
            : r \in fs_read(f, Join(out_dir, wasm_base64_esm)) }

generate_cjs_base64(f, out_dir) ==
    UNION { IF r = << >>
            THEN { Outcome(FALSE, f, << >>, "read esm/wasm-base64.js") }
            ELSE LET pieces == Split(TextOf(r[1]), "\"")
                 IN IF Len(pieces) < 2
                    THEN { Outcome(FALSE, f, << >>, "Failed to parse base64 from ESM module") }
                    ELSE fs_write(f, Join(out_dir, wasm_base64_cjs),
                                  Text("module.exports.wasmBase64 = \""
                                       \o pieces[2] \o "\";\n"))
            : r \in fs_read(f, Join(out_dir, wasm_base64_esm)) }

GenerateCjsBase64 ==
    /\ Running("generate_cjs_base64")
    /\ \E res \in generate_cjs_base64(fs, config.out_dir) : Conclude(res, locals, << >>)

\* The user runs the tool again, on what a successful run left.
Rerun ==
    /\ status = "done"
    /\ runs < MaxRuns
    /\ pc' = 1
    /\ status' = "running"
    /\ locals' = NoLocals
    /\ log' = << >>
    /\ failures' = << >>
    /\ fs0' = fs
    /\ runs' = runs + 1
    /\ UNCHANGED <<config, world, fs>>
    /\ UNCHANGED mergeVars

-----------------------------------------------------------------------------
\* The inputs of a run.

\* the command line of main.rs: its defaults, or an output directory whose
\* parent does not exist yet; with or without --wasm-bindgen-tar
Configs ==
    { [crate_path |-> ".", package_json |-> "./package.json", out_dir |-> out,
       profile |-> "release", wasm_bindgen_tar |-> tar]
      : out \in { "./dist", "./build/dist" },
        tar \in { << >>, <<"./bindings.tar.gz">> } }

\* the compiled binary
WasmBinary == << 0, 97, 115, 109, 255 >>

\* the files of an archive the later phases look for
LookedFor(wasm_name) ==
    { Join("nodejs", wasm_name \o ".js"), Join("nodejs", wasm_name \o ".d.ts"),
      Join("web", wasm_name \o ".js"), Join("web", wasm_name \o "_bg.wasm"),
      Join("bundler", wasm_name \o ".js") }

\* archives: a complete one, and those lacking up to MaxMissing looked-for files
Archives(wasm_name, wasm) ==
    LET full == full_archive(wasm_name, wasm)
    IN { [q \in DOMAIN full \ missing |-> full[q]]
         : missing \in { m \in SUBSET LookedFor(wasm_name) : Cardinality(m) <= MaxMissing } }

\* user-authored manifests: the fixture of tests/packaging.rs, one with fields
\* of its own in the places the merge writes, one that is no object, and a
\* file that is not JSON
UserManifests ==
    { JsonFile(JObj(<< <<"name", JStr("test-wasm-lib")>>,
                       <<"version", JStr("0.1.0")>>,
                       <<"license", JStr("MIT")>>,
                       <<"description", JStr("Test fixture for wasm-bodge")>> >>), "user"),
      JsonFile(JObj(<< <<"main", JStr("old.js")>>,
                       <<"files", JArr(<<JStr("README.md"), JStr("dist/esm")>>)>>,
                       <<"scripts", JObj(<< <<"test", JStr("node t.js")>> >>)>>,
                       <<"exports", JStr("./old.js")>> >>), "user"),
      JsonFile(JArr(<< JStr("name") >>), "user"),
      Text("{ \"name\": ") }

PipeInit ==
    /\ config \in Configs
    /\ \E archive \in Archives("my_lib", WasmBinary) :
          world = [wasm |-> WasmBinary, crate_name |-> "my-lib",
                   target_directory |-> "/ws/target",
                   archive |-> IF config.wasm_bindgen_tar = << >>
                               THEN full_archive("my_lib", WasmBinary) ELSE archive]
    /\ \E manifest \in UserManifests :
          fs = LET base == ("." :> Dir)
                           @@ (Join(config.crate_path, "Cargo.toml")
                                 :> TomlFile(<<world.crate_name>>))
                           @@ (config.package_json :> manifest)
               IN IF config.wasm_bindgen_tar = << >> THEN base
                  ELSE base @@ (config.wasm_bindgen_tar[1] :> Archive)
    /\ fs0 = fs
    /\ pc = 1
    /\ status = "running"
    /\ locals = NoLocals
    /\ log = << >>
    /\ failures = << >>
    /\ runs = 1

MergeIdle ==
    /\ package = << >>
    /\ origPackage = << >>
    /\ mdist = ""
    /\ merges = 0
    /\ resolved = << >>

Init == PipeInit /\ MergeIdle

Next ==
    \/ CreateOutDir
    \/ ExtractTarball
    \/ CargoBuild
    \/ FindTargetDir
    \/ BuildWasmCrateName
    \/ CheckWasmFile
    \/ CreateWasmBindgenDir
    \/ RunWasmBindgen
    \/ GetCrateName
    \/ GetPackageName
    \/ RenameNodejs
    \/ ApplyViteFix
    \/ GenerateBase64Module
    \/ CreateEntryDirs
    \/ WriteEsm
    \/ WriteCjs
    \/ FindEsbuild
    \/ BundleIife
    \/ BundleCjs
    \/ RelativeOutDir
    \/ UpdatePackageJson
    \/ CopyTypes
    \/ CopyWasm
    \/ GenerateCjsBase64
    \/ Rerun

Spec == Init /\ [][Next]_vars

-----------------------------------------------------------------------------
\* The pure functions on drawn inputs: the manifest merge applied to user
\* manifests, and lookups in the export-mapping table.

\* the dist strings of the two output directories of Configs
Dists == { "dist", "build/dist" }

Distinct(q) == \A i, j \in 1..Len(q) : i # j => q[i] # q[j]

\* the sequences of at most n elements of S
RECURSIVE Tuples(_, _)
Tuples(S, n) ==
    IF n = 0 THEN { << >> }
    ELSE LET shorter == Tuples(S, n - 1)
         IN shorter \cup { Append(q, x) : q \in shorter, x \in S }

\* values a user may have under "files": arrays over the output directory,
\* a subpath of it, a name it is a prefix of, another file and a non-string,
\* or something that is no array
FilesValues(dist) ==
    { JArr(a) : a \in Tuples({ JStr(dist), JStr(dist \o "/esm"), JStr(dist \o "x"),
                               JStr("README.md"), JNum(42) }, MaxFiles) }
    \cup { JStr(dist) }

ManifestKeys == { "name", "scripts", "files", "main", "exports" }

ValuesOf(key, dist) ==
    CASE key = "name" -> { JStr("test-wasm-lib") }
      [] key = "scripts" -> { JObj(<< <<"test", JStr("node t.js")>> >>) }
      [] key = "files" -> FilesValues(dist)
      [] key = "main" -> { JStr("old.js") }
      [] key = "exports" -> { JStr("./old.js") }

\* the objects with the keys ks, in that order
RECURSIVE ObjectsOver(_, _)
ObjectsOver(ks, dist) ==
    IF ks = << >> THEN { << >> }
    ELSE { <<<<Head(ks), v>>>> \o rest
           : v \in ValuesOf(Head(ks), dist), rest \in ObjectsOver(Tail(ks), dist) }

DrawnManifests(dist) ==
    UNION { ObjectsOver(ks, dist)
            : ks \in { q \in Tuples(ManifestKeys, MaxKeys) : Distinct(q) } }

MergePackageName == "test-wasm-lib"

\* ExportMapping lookup as the tests of targets.rs do it, with what the
\* environments found resolve to
resolve_condition(condition) ==
    LET found == SelectSeq(ROOT_EXPORT_MAPPING, LAMBDA m : m.condition = condition)
        mapping == found[1]
    IN [condition |-> condition,
        esm |-> mapping.esm,
        cjs |-> mapping.cjs,
        esm_target |-> wasm_bindgen_target(mapping.esm),
        esm_strategy |-> init_strategy(mapping.esm),
        esm_entrypoint |-> esm_entrypoint(mapping.esm),
        esm_binding |-> wasm_bindgen_js(wasm_bindgen_target(mapping.esm), "my_lib")]

Merge ==
    /\ status = "idle"
    /\ resolved = << >>
    /\ merges < MaxMerges
    /\ package' = update(package, mdist, MergePackageName)
    /\ merges' = merges + 1
    /\ UNCHANGED <<origPackage, mdist, resolved>>
    /\ UNCHANGED pipeVars

Resolve ==
    /\ status = "idle"
    /\ resolved = << >>
    /\ merges = 0
    /\ \E condition \in ExportConditions :
          resolved' = << resolve_condition(condition) >>
    /\ UNCHANGED <<package, origPackage, mdist, merges>>
    /\ UNCHANGED pipeVars

PipeIdle ==
    /\ config = CHOOSE c \in Configs : c.out_dir = "./dist" /\ c.wasm_bindgen_tar = << >>
    /\ world = << >>
    /\ fs = << >>
    /\ fs0 = << >>
    /\ pc = 0
    /\ status = "idle"
    /\ locals = NoLocals
    /\ log = << >>
    /\ failures = << >>
    /\ runs = 0

MergeInit ==
    /\ mdist \in Dists
    /\ package \in DrawnManifests(mdist)
    /\ origPackage = package
    /\ merges = 0
    /\ resolved = << >>
    /\ PipeIdle

MergeNext == Merge \/ Resolve

SpecMerge == MergeInit /\ [][MergeNext]_vars


-----------------------------------------------------------------------------
\* The base64 payload on drawn binaries: generate_base64_module and
\* generate_cjs_base64 write the payload modules, and the payload is decoded
\* as the embed-as-base64 entrypoint decodes it when it is imported.

\* buffers: every sequence of at most MaxBytes of five sample bytes, every single
\* byte, and the buffer of all 256 byte values
Buffers ==
    Tuples({ 0, 63, 128, 251, 255 }, MaxBytes)
    \cup { <<b>> : b \in 0..255 }
    \cup { [i \in 1..256 |-> i - 1] }

\* the alphabet atob accepts
AtobAlphabet == "ABCDEFGHIJKLMNOPQRSTUVWXYZabcdefghijklmnopqrstuvwxyz0123456789+/"

AtobIndex(c) == Least({ i \in 0..63 : SubSeq(AtobAlphabet, i + 1, i + 1) = c })

\* the bytes of base64 data without padding whose length is not 1 modulo 4:
\* four characters give three bytes, and the bits left over at the end are
\* discarded; long data is decoded as two halves cut at a multiple of four
RECURSIVE atob_groups(_)
atob_groups(d) ==
    IF Len(d) = 0 THEN << >>
    ELSE IF Len(d) <= 4
    THEN LET a == AtobIndex(SubSeq(d, 1, 1))
             b == AtobIndex(SubSeq(d, 2, 2))
             c == AtobIndex(SubSeq(d, 3, 3))
             e == AtobIndex(SubSeq(d, 4, 4))
         IN IF Len(d) = 2 THEN << a * 4 + b \div 16 >>
            ELSE IF Len(d) = 3
            THEN << a * 4 + b \div 16, (b % 16) * 16 + c \div 4 >>
            ELSE << a * 4 + b \div 16, (b % 16) * 16 + c \div 4, (c % 4) * 64 + e >>
    ELSE LET cut == 4 * ((Len(d) + 7) \div 8)
         IN atob_groups(SubSeq(d, 1, cut)) \o atob_groups(SubSeq(d, cut + 1, Len(d)))

\* atob of the entrypoint: << >> when it throws, else the code units of the
\* binary string.  White space is dropped, padding is removed from data whose
\* length is a multiple of 4, and any other character makes it throw.
atob(s) ==
    LET data == Replace(Replace(Replace(Replace(s, " ", ""), "\n", ""), "\t", ""), "\r", "")
        n == Len(data)
        unpadded == IF n > 0 /\ n % 4 = 0
                    THEN IF SubSeq(data, n - 1, n) = "==" THEN SubSeq(data, 1, n - 2)
                         ELSE IF SubSeq(data, n, n) = "=" THEN SubSeq(data, 1, n - 1)
                         ELSE data
                    ELSE data
    IN IF Len(unpadded) % 4 = 1
          \/ \E i \in 1..Len(unpadded) :
                Occurrences(AtobAlphabet, SubSeq(unpadded, i, i)) = {}
       THEN << >>
       ELSE << atob_groups(unpadded) >>

\* Uint8Array.from(binary, c => c.charCodeAt(0))
Uint8Array_from(units) == [i \in 1..Len(units) |-> units[i] % 256]

\* the value a payload module exports as wasmBase64: << >> when the module
\* has no string literal
wasmBase64_of(text) ==
    LET pieces == Split(text, "\"")
    IN IF Len(pieces) < 3 THEN << >> ELSE << pieces[2] >>

\* what the entrypoint hands to initSync: << >> when the import or atob throws
entrypoint_bytes(text) ==
    LET exported == wasmBase64_of(text)
    IN IF exported = << >> THEN << >>
       ELSE LET binary == atob(exported[1])
            IN IF binary = << >> THEN << >> ELSE << Uint8Array_from(binary[1]) >>

Base64Init ==
    /\ config = CHOOSE c \in Configs : c.out_dir = "./dist" /\ c.wasm_bindgen_tar = << >>
    /\ \E b \in Buffers : world = [wasm |-> b]
    /\ fs = ("." :> Dir) @@ ("./dist" :> Dir) @@ ("./dist/cjs" :> Dir)
            @@ ("./dist/wasm_bindgen" :> Dir) @@ (Join("./dist/wasm_bindgen", dir_name("Web")) :> Dir)
            @@ (Join(Join("./dist/wasm_bindgen", dir_name("Web")), "my_lib_bg.wasm") :> Bytes(world.wasm))
    /\ fs0 = fs
    /\ pc = 0
    /\ status = "codec"
    /\ locals = NoLocals
    /\ log = << >>
    /\ failures = << >>
    /\ runs = 0
    /\ MergeIdle

\* post_process::generate_base64_module on the drawn binary
EncodePayload ==
    /\ status = "codec"
    /\ pc = 0
    /\ \E res \in generate_base64_module(fs, Join("./dist/wasm_bindgen", dir_name("Web")), config.out_dir, "my_lib") :
          /\ fs' = res.fs
          /\ pc' = IF res.ok THEN 1 ELSE 0
    /\ UNCHANGED <<config, world, fs0, status, locals, log, failures, runs>>
    /\ UNCHANGED mergeVars

\* finalize::generate_cjs_base64 on the module EncodePayload wrote
EncodeCjsPayload ==
    /\ status = "codec"
    /\ pc = 1
    /\ \E res \in generate_cjs_base64(fs, config.out_dir) :
          /\ fs' = res.fs
          /\ pc' = IF res.ok THEN 2 ELSE 1
    /\ UNCHANGED <<config, world, fs0, status, locals, log, failures, runs>>
    /\ UNCHANGED mergeVars

\* a payload module that was written is imported and decoded as esm/web.js
\* decodes it
DecodePayload ==
    /\ status = "codec"
    /\ resolved = << >>
    /\ Occurrences(generate_esm_entrypoint("Web", "my_lib"),
                   "const bytes = Uint8Array.from(atob(wasmBase64), c => c.charCodeAt(0));")
          # {}
    /\ \E module \in { wasm_base64_esm, wasm_base64_cjs } :
          /\ pc >= (IF module = wasm_base64_esm THEN 1 ELSE 2)
          /\ resolved' = << [module |-> module,
                             bytes |-> entrypoint_bytes(
                                          TextOf(fs[Join(config.out_dir, module)]))] >>
    /\ UNCHANGED <<package, origPackage, mdist, merges>>
    /\ UNCHANGED pipeVars

Base64Next == EncodePayload \/ EncodeCjsPayload \/ DecodePayload

SpecBase64 == Base64Init /\ [][Base64Next]_vars

-----------------------------------------------------------------------------
\* The @vite-ignore patch on drawn sources: apply_vite_fix applied, once and
\* again, to a web binding whose text is a sequence of pieces.

RECURSIVE Concat(_)
Concat(pieces) == IF pieces = << >> THEN "" ELSE Head(pieces) \o Concat(Tail(pieces))

\* sources of at most MaxPieces pieces: the URL construction for my_lib and
\* for other, one already patched, one naming a file that differs from
\* my_lib_bg.wasm in the character the pattern escapes, and other code
PatchInit ==
    /\ config = CHOOSE c \in Configs : c.out_dir = "./dist" /\ c.wasm_bindgen_tar = << >>
    /\ \E wasm_name \in { "my_lib", "other" } :
       \E pieces \in Tuples({ "new URL('my_lib_bg.wasm', import.meta.url)",
                              "new URL('other_bg.wasm', import.meta.url)",
                              "new /* @vite-ignore */ URL('my_lib_bg.wasm', import.meta.url)",
                              "new URL('my_lib_bg_wasm', import.meta.url)",
                              ";\nmodule_or_path = " }, MaxPieces) :
          world = [wasm_name |-> wasm_name, pieces |-> pieces]
    /\ fs = ("." :> Dir) @@ ("./dist" :> Dir) @@ ("./dist/wasm_bindgen" :> Dir)
            @@ (Join("./dist/wasm_bindgen", dir_name("Web")) :> Dir)
            @@ (Join(Join("./dist/wasm_bindgen", dir_name("Web")), world.wasm_name \o ".js")
                  :> Text(Concat(world.pieces)))
    /\ fs0 = fs
    /\ pc = 0
    /\ status = "patch"
    /\ locals = NoLocals
    /\ log = << >>
    /\ failures = << >>
    /\ runs = 0
    /\ MergeIdle

\* post_process::apply_vite_fix; pc counts the applications that returned Ok
ApplyPatch ==
    /\ status = "patch"
    /\ pc < MaxRuns
    /\ \E res \in apply_vite_fix(fs, Join("./dist/wasm_bindgen", dir_name("Web")),
                                 world.wasm_name) :
          /\ fs' = res.fs
          /\ pc' = IF res.ok THEN pc + 1 ELSE pc
          /\ status' = IF res.ok THEN "patch" ELSE "failed"
    /\ UNCHANGED <<config, world, fs0, locals, log, failures, runs>>
    /\ UNCHANGED mergeVars

SpecPatch == PatchInit /\ [][ApplyPatch]_vars

-----------------------------------------------------------------------------
\* Properties of a run (specification Spec).

\* the phases of build::run, in the order the specification gives them
PhaseOrder == << "obtain", "post_process", "entrypoints", "bundle", "finalize" >>

PhaseIndex(ph) == CHOOSE i \in 1..Len(PhaseOrder) : PhaseOrder[i] = ph

\* the positions of the history that belong to a phase
PhaseEntries == { i \in 1..Len(log) : log[i].phase # "orchestrate" }

Began(ph) == \E i \in PhaseEntries : log[i].phase = ph

FirstOf(ph) == Least({ i \in PhaseEntries : log[i].phase = ph })

\* the outputs a phase has to have produced: <<kind, path, by>>
OutputsOf(ph) ==
    LET out == config.out_dir
    IN CASE ph = "obtain" ->
              IF config.wasm_bindgen_tar # << >>
              THEN { <<"invoke", out \o "/wasm_bindgen", "tar">> }
              ELSE { <<"invoke", out \o "/wasm_bindgen/" \o d, "wasm-bindgen">>
                     : d \in {"nodejs", "web", "bundler"} }
         [] ph = "post_process" ->
              { <<"write", out \o "/wasm_bindgen/web/my_lib.js", "self">>,
                <<"write", out \o "/esm/wasm-base64.js", "self">> }
         [] ph = "entrypoints" ->
              { <<"write", out \o "/esm/" \o n \o ".js", "self">>
                : n \in {"node", "web", "bundler", "workerd", "slim"} }
              \cup { <<"write", out \o "/cjs/node.cjs", "self">> }
         [] ph = "bundle" ->
              { <<"invoke", out \o "/iife/index.js", "esbuild">>,
                <<"invoke", out \o "/cjs/web.cjs", "esbuild">>,
                <<"invoke", out \o "/cjs/slim.cjs", "esbuild">> }
         [] OTHER -> {}

\* before position j, phase ph has produced all its outputs, completely
CompletedBefore(ph, j) ==
    /\ \A i \in 1..(j - 1) : log[i].phase = ph => log[i].complete
    /\ \A o \in OutputsOf(ph) :
          \E i \in 1..(j - 1) :
             /\ log[i].phase = ph /\ log[i].complete
             /\ <<log[i].kind, log[i].path, log[i].by>> = o

\* C1: the phases of a run happen strictly in the order obtain bindings,
\* post-process, entrypoints, bundle, finalize: nothing of an earlier phase
\* happens after something of a later one (so no phase runs twice), no phase
\* is skipped, and when a phase begins every earlier phase has produced all
\* of its outputs with every one of its writes complete.
C1_PhasesInOrder ==
    /\ \A i, j \in PhaseEntries :
          i < j => PhaseIndex(log[i].phase) <= PhaseIndex(log[j].phase)
    /\ \A k \in 2..Len(PhaseOrder) :
          Began(PhaseOrder[k]) =>
             \A m \in 1..(k - 1) :
                /\ Began(PhaseOrder[m])
                /\ CompletedBefore(PhaseOrder[m], FirstOf(PhaseOrder[k]))

\* a run that went through all five phases, building the bindings itself
C1_Witness ==
    /\ status = "done"
    /\ config.wasm_bindgen_tar = << >>
    /\ \A k \in 1..Len(PhaseOrder) : Began(PhaseOrder[k])

\* the failures the code handles itself instead of returning them
Tolerated(f) ==
    \/ f.op = "find_target_dir" /\ f.what = "cargo metadata exited non-zero"
    \/ f.op = "find_esbuild" /\ f.what # "esbuild not found"

StepEntries == { i \in 1..Len(log) : log[i].kind = "step" }

\* C2 as stated: whatever operation fails, the run is aborted.
C2_EveryFailureAborts ==
    failures # << >> => status = "failed"

\* C2: a failure of an operation, other than a non-zero exit of cargo metadata
\* and a failed probe of an esbuild candidate (which the code answers with
\* its fallback), ends the run at once: the failing step is the last thing
\* the run did, its failure is the last one recorded, and no step of the run
\* was executed twice.
C2_AbortOnFirstFailure ==
    /\ \A n \in 1..Len(failures) :
          ~Tolerated(failures[n]) =>
             /\ status = "failed"
             /\ n = Len(failures)
             /\ \A i \in 1..Len(log) : log[i].step <= failures[n].step
             /\ \E i \in StepEntries :
                   log[i].step = failures[n].step /\ ~log[i].complete
    /\ \A i, j \in StepEntries : log[i].step = log[j].step => i = j
    /\ \A i \in StepEntries : ~log[i].complete => status = "failed"

\* a run aborted in the middle, after earlier steps changed the file system
C2_Witness ==
    /\ status = "failed"
    /\ failures # << >>
    /\ ~Tolerated(failures[Len(failures)])
    /\ failures[Len(failures)].op = "bundle_cjs"


\* the manifest of the run, before it and now
Manifest0 == fs0[config.package_json]

ManifestNow == fs[config.package_json]

ManifestWrites ==
    { i \in 1..Len(log) : log[i].kind = "write" /\ log[i].path = config.package_json }

\* the output directory as the manifest names it
DistOf(out_dir) == DropPrefix(out_dir, 2)

\* C3 as stated: whenever the run stops, the manifest holds its original
\* content or the complete merged content, and it is written at most once.
C3_ManifestIntact ==
    /\ Cardinality(ManifestWrites) <= 1
    /\ Exists(fs, config.package_json)
    /\ \/ ManifestNow = Manifest0
       \/ /\ Manifest0.k = "json"
          /\ Manifest0.json.t = "obj"
          /\ ManifestNow = JsonFile(JObj(update(Manifest0.json.o,
                                                DistOf(config.out_dir),
                                                locals.package_name)), "pretty")

InOutDir(path) == path = config.out_dir \/ StartsWith(path, config.out_dir \o "/")

\* the paths whose existence or content differs from before the run
Changed ==
    { q \in DOMAIN fs \cup DOMAIN fs0 :
        \/ q \notin DOMAIN fs
        \/ q \notin DOMAIN fs0
        \/ fs[q] # fs0[q] }

Mutations == { i \in 1..Len(log) : log[i].kind \in {"write", "rename", "mkdir"} }

\* C4 as stated: everything the run creates, modifies or renames is inside
\* the output directory.
C4_OnlyOutDirChanged ==
    /\ \A q \in Changed : InOutDir(q)
    /\ \A i \in Mutations : InOutDir(log[i].path)

\* the directories above the output directory
AboveOutDir(q) == StartsWith(config.out_dir, q \o "/")

\* cargo's target directory, what is in it and what is above it
CargoOwned(q) ==
    LET td == world.target_directory
    IN q = td \/ StartsWith(q, td \o "/") \/ StartsWith(td, q \o "/")

\* C4: everything the run creates, modifies or renames is inside the output
\* directory, except that the finalize phase rewrites the manifest file where
\* it lies, that missing directories above the output directory are created,
\* and that a live build lets cargo write into its own target directory.
C4_ChangesConfined ==
    /\ \A q \in Changed :
          \/ InOutDir(q)
          \/ q = config.package_json
          \/ AboveOutDir(q) /\ q \notin DOMAIN fs0 /\ IsDir(fs, q)
          \/ config.wasm_bindgen_tar = << >> /\ CargoOwned(q)
    /\ \A i \in Mutations :
          \/ InOutDir(log[i].path)
          \/ log[i].path = config.package_json /\ log[i].op = "update_package_json"
          \/ log[i].by = "cargo" /\ CargoOwned(log[i].path)

\* a finished run that changed the manifest and files of the output directory
C4_Witness ==
    /\ status = "done"
    /\ config.out_dir = "./build/dist"
    /\ config.package_json \in Changed
    /\ \E q \in Changed : InOutDir(q) /\ ~IsDir(fs, q)

\* the member k of a JSON object v
Field(v, k) ==
    IF v.t = "obj" /\ MapGet(v.o, k) # << >> THEN MapGet(v.o, k)[1] ELSE [t |-> "none"]

RootExport(manifest) == Field(Field(manifest, "exports"), ".")

IifeBundles == { q \in DOMAIN fs : fs[q].k = "bundle" /\ fs[q].format = "iife" }

\* C8: after a successful run the root export of the manifest gives
\* ./{dist}/esm/web.js for import, ./{dist}/esm/node.js for node.import and
\* ./{dist}/cjs/node.cjs for node.require, and the only global-script bundle
\* is iife/index.js in the output directory.
C8_SuccessfulRun ==
    status = "done" =>
       LET root == RootExport(ManifestNow.json)
           dist == "./" \o DistOf(config.out_dir)
       IN /\ ManifestNow.k = "json"
          /\ Field(root, "import") = JStr(dist \o "/esm/web.js")
          /\ Field(Field(root, "node"), "import") = JStr(dist \o "/esm/node.js")
          /\ Field(Field(root, "node"), "require") = JStr(dist \o "/cjs/node.cjs")
          /\ IifeBundles = { config.out_dir \o "/iife/index.js" }

\* a successful run into a nested output directory, on a manifest that had
\* an exports field of its own
C8_Witness ==
    /\ status = "done"
    /\ config.out_dir = "./build/dist"
    /\ Field(Manifest0.json, "exports") = JStr("./old.js")
    /\ IifeBundles # {}


-----------------------------------------------------------------------------
\* Properties of the manifest merge and of the mapping table (specification
\* SpecMerge).

\* the top-level keys the merge writes
OwnedKeys == { "type", "main", "module", "types", "files", "exports" }

\* the entries of a manifest the merge does not own, in their order
NotOwned(o) == SelectSeq(o, LAMBDA e : e[1] \notin OwnedKeys)

\* C5: after the merge, every top-level key other than type, main, module,
\* types, files and exports is still there, with the value and in the
\* relative order it had in the user's manifest.
C5_ForeignKeysKept ==
    merges > 0 => NotOwned(package) = NotOwned(origPackage)

\* merged twice, a manifest with two keys of its own around a key the merge owns
C5_Witness ==
    /\ merges = 2
    /\ Len(NotOwned(origPackage)) = 2
    /\ Len(origPackage) = 3
    /\ origPackage[2][1] \in OwnedKeys

MergedRoot == RootExport(JObj(package))

\* the condition keys of the table, in declaration order
TableKeys ==
    [i \in 1..Len(ROOT_EXPORT_MAPPING) |->
        ExportCondition_as_str(ROOT_EXPORT_MAPPING[i].condition)]

IsPath(v) == v.t = "str"

\* C6: the root export "." is an object whose keys are, in this order, types
\* and then one key per entry of ROOT_EXPORT_MAPPING in declaration order:
\* workerd, node, browser, import, require.  import and require hold one
\* path; workerd, node and browser hold an object with exactly the keys
\* import and require, each a path.
C6_RootExportShape ==
    merges > 0 =>
       /\ MergedRoot.t = "obj"
       /\ MapKeys(MergedRoot.o) = << "types" >> \o TableKeys
       /\ MapKeys(MergedRoot.o)
            = << "types", "workerd", "node", "browser", "import", "require" >>
       /\ \A k \in {"types", "import", "require"} : IsPath(Field(MergedRoot, k))
       /\ \A k \in {"workerd", "node", "browser"} :
             LET nested == Field(MergedRoot, k)
             IN /\ nested.t = "obj"
                /\ Len(nested.o) = 2
                /\ { nested.o[i][1] : i \in 1..2 } = {"import", "require"}
                /\ \A i \in 1..2 : IsPath(nested.o[i][2])

\* the first merge of a manifest that had no exports
C6_Witness ==
    /\ merges = 1
    /\ MapGet(origPackage, "exports") = << >>
    /\ MapGet(package, "exports") # << >>

RuntimeKeys == { "workerd", "node", "browser" }

GenericKeys == { "import", "require" }

\* in keys, all runtime conditions come before all generic ones, every one
\* of them is there, and none is there twice
RuntimeBeforeGeneric(keys) ==
    /\ RuntimeKeys \cup GenericKeys \subseteq { keys[i] : i \in 1..Len(keys) }
    /\ \A i, j \in 1..Len(keys) :
          /\ keys[i] \in RuntimeKeys /\ keys[j] \in GenericKeys => i < j
          /\ keys[i] = keys[j] => i = j

\* C7: in ROOT_EXPORT_MAPPING and in the root export the merge emits, each
\* of workerd, node and browser comes before both import and require, and no
\* condition key occurs twice.
C7_RuntimeConditionsFirst ==
    /\ RuntimeBeforeGeneric(TableKeys)
    /\ merges > 0 => /\ MergedRoot.t = "obj"
                     /\ RuntimeBeforeGeneric(MapKeys(MergedRoot.o))

\* a merge that replaced the exports the user had written
C7_Witness ==
    /\ merges > 0
    /\ MapGet(origPackage, "exports") = << JStr("./old.js") >>
    /\ MergedRoot.t = "obj"

\* C9: looked up in the table, browser gives the Bundler environment for ESM
\* (wasm-bindgen target Bundler, entrypoint esm/bundler.js) and the Web
\* environment for CJS; workerd gives the Workerd environment for ESM
\* (wasm-bindgen target Web, strategy SyncWasmImport) and the Web
\* environment for CJS.
C9_ConditionResolution ==
    \A i \in 1..Len(resolved) :
       LET r == resolved[i]
       IN /\ r.condition = "Browser" =>
                /\ r.esm = "Bundler"
                /\ r.esm_target = "Bundler"
                /\ r.esm_entrypoint = "esm/bundler.js"
                /\ r.cjs = "Web"
          /\ r.condition = "Workerd" =>
                /\ r.esm = "Workerd"
                /\ r.esm_target = "Web"
                /\ r.esm_strategy = "SyncWasmImport"
                /\ r.cjs = "Web"

\* both conditions of the claim can be looked up
C9_Witness ==
    /\ resolved # << >>
    /\ resolved[1].condition = "Workerd"
    /\ resolved[1].esm_binding = "wasm_bindgen/web/my_lib.js"

\* the entries of the user's files array (none when files is no array)
OrigFiles ==
    LET got == MapGet(origPackage, "files")
    IN IF got # << >> /\ got[1].t = "arr" THEN got[1].a ELSE << >>

MergedFiles == Field(JObj(package), "files")

CountOf(v, q) == Cardinality({ i \in 1..Len(q) : q[i] = v })

\* the output directory or something below it is among the entries
Listed(entries, dist) ==
    \E i \in 1..Len(entries) :
       /\ entries[i].t = "str"
       /\ entries[i].s = dist \/ StartsWith(entries[i].s, dist \o "/")

\* C10 as stated: the output directory is appended only when neither it nor
\* a subpath of it is listed; after the merges it occurs at most once; all
\* entries the user had are still there, with their values and order.
C10_FilesMergeAsStated ==
    merges > 0 =>
       /\ MergedFiles.t = "arr"
       /\ \/ MergedFiles.a = OrigFiles
          \/ /\ MergedFiles.a = Append(OrigFiles, JStr(mdist))
             /\ ~Listed(OrigFiles, mdist)
       /\ CountOf(JStr(mdist), MergedFiles.a) <= 1

\* C10: after any number of merges the files array is the string entries of
\* the user's array in their order, followed by the output directory exactly
\* when no string entry was the output directory or a subpath of it; entries
\* that are no strings are dropped, and the output directory occurs more than
\* once only if the user's array already listed it more than once.
C10_FilesMerge ==
    merges > 0 =>
       LET strs == SelectSeq(OrigFiles, LAMBDA v : v.t = "str")
           had == CountOf(JStr(mdist), OrigFiles)
       IN /\ MergedFiles = JArr(IF Listed(OrigFiles, mdist)
                                THEN strs
                                ELSE Append(strs, JStr(mdist)))
          /\ CountOf(JStr(mdist), MergedFiles.a) <= (IF had > 1 THEN had ELSE 1)

\* merged twice, an array that lists a subpath of the output directory
\* behind an entry that is no string
C10_Witness ==
    /\ merges = 2
    /\ OrigFiles = << JNum(42), JStr(mdist \o "/esm") >>
    /\ MergedFiles = JArr(<< JStr(mdist \o "/esm") >>)


\* C11: the merge is idempotent: applied again to the manifest it produced,
\* with the same output directory and package name, it yields the same
\* manifest, and so the same exports value.
C11_MergeIdempotent ==
    [][(merges >= 1 /\ merges' = merges + 1) =>
          /\ package' = package
          /\ MapGet(package', "exports") = MapGet(package, "exports")]_vars

\* a second merge of a manifest whose files value was no array
C11_Witness ==
    /\ merges = 2
    /\ MapGet(origPackage, "files") = << JStr(mdist) >>
    /\ MergedFiles = JArr(<< JStr(mdist) >>)


-----------------------------------------------------------------------------
\* Properties of bundling (specification Spec).

\* the bundle builds of the run: the positions where esbuild was invoked
BundleBuilds == { i \in 1..Len(log) : log[i].kind = "invoke" /\ log[i].by = "esbuild" }

\* the builds the run has to make: <<output, format, input>>
ExpectedBuilds ==
    LET out == config.out_dir
    IN { << out \o "/iife/index.js", "iife", out \o "/esm/web.js" >>,
         << out \o "/cjs/web.cjs", "cjs", out \o "/esm/web.js" >>,
         << out \o "/cjs/slim.cjs", "cjs", out \o "/esm/slim.js" >> }

\* C12: once bundling is through, esbuild has been run exactly once for the
\* global-script bundle (input esm/web.js, format iife, output iife/index.js)
\* and exactly once, with format cjs from the environment's ESM entrypoint to
\* cjs/{file_stem}.cjs, for each environment with needs_cjs_bundle (web and
\* slim), and for nothing else.
C12_BundleBuilds ==
    Began("finalize") =>
       /\ { env \in { Environment_all[i] : i \in 1..Len(Environment_all) } :
              needs_cjs_bundle(env) } = { "Web", "Slim" }
       /\ \A i \in BundleBuilds : \E e \in ExpectedBuilds : log[i].path = e[1]
       /\ \A e \in ExpectedBuilds :
             /\ Cardinality({ i \in BundleBuilds : log[i].path = e[1] }) = 1
             /\ Exists(fs, e[1])
             /\ fs[e[1]].k = "bundle"
             /\ fs[e[1]].format = e[2]
             /\ fs[e[1]].entry = e[3]

\* a second run that got through bundling
C12_Witness ==
    /\ runs = 2
    /\ Began("finalize")
    /\ Cardinality(BundleBuilds) = 3


\* the reports that esbuild is missing
MissingToolReports ==
    { n \in 1..Len(failures) : failures[n].what = "esbuild not found" }

\* C13: when esbuild is found on none of the search paths, the run fails
\* with one report of the missing tool, made before any bundle build is
\* attempted; no bundle build is attempted in that run.
C13_MissingBundlerUpFront ==
    MissingToolReports # {} =>
       /\ status = "failed"
       /\ MissingToolReports = { Len(failures) }
       /\ BundleBuilds = {}
       /\ \A n \in 1..(Len(failures) - 1) :
             failures[n].op = "find_esbuild" => Tolerated(failures[n])

\* all three candidates were probed in vain, after the entrypoints were written
C13_Witness ==
    /\ status = "failed"
    /\ MissingToolReports # {}
    /\ Cardinality({ n \in 1..Len(failures) : failures[n].op = "find_esbuild" }) = 4
    /\ Exists(fs, config.out_dir \o "/esm/web.js")


\* the file stems of the environments entrypoints are generated for
GeneratedStems == { "node", "web", "bundler", "workerd", "slim" }

EsmFile(stem) == config.out_dir \o "/esm/" \o stem \o ".js"

CjsFile(stem) == config.out_dir \o "/cjs/" \o stem \o ".cjs"

\* the paths the run wrote or had a tool write
WrittenPaths == { log[i].path : i \in { j \in 1..Len(log) : log[j].kind = "write" } }

\* C14 as stated: after a successful run every generated environment has
\* its ESM entrypoint and its CommonJS entrypoint on disk.
C14_BothEntrypointsEverywhere ==
    status = "done" =>
       \A stem \in GeneratedStems :
          Exists(fs, EsmFile(stem)) /\ Exists(fs, CjsFile(stem))

\* C14: after a successful run every generated environment has its ESM
\* entrypoint on disk; a CommonJS entrypoint is there for node (synthesized
\* directly), web and slim (bundled by esbuild) only: the run writes no
\* cjs/bundler.cjs and no cjs/workerd.cjs.
C14_EntrypointsOnDisk ==
    status = "done" =>
       /\ \A stem \in GeneratedStems :
             Exists(fs, EsmFile(stem)) /\ fs[EsmFile(stem)].k = "text"
       /\ Exists(fs, CjsFile("node")) /\ fs[CjsFile("node")].k = "text"
       /\ \A stem \in {"web", "slim"} :
             Exists(fs, CjsFile(stem)) /\ fs[CjsFile(stem)].k = "bundle"
       /\ \A stem \in {"bundler", "workerd"} :
             /\ CjsFile(stem) \notin WrittenPaths
             /\ ~Exists(fs, CjsFile(stem))

\* a successful run from a prebuilt archive
C14_Witness ==
    /\ status = "done"
    /\ config.wasm_bindgen_tar # << >>
    /\ Exists(fs, CjsFile("slim"))
    /\ Exists(fs, EsmFile("workerd"))


\* the files a step expects from an earlier phase
ExpectedArtifacts ==
    LET out == config.out_dir
    IN { [op |-> "apply_vite_fix", file |-> out \o "/wasm_bindgen/web/my_lib.js"],
         [op |-> "generate_base64_module",
          file |-> out \o "/wasm_bindgen/web/my_lib_bg.wasm"],
         [op |-> "copy_wasm", file |-> out \o "/wasm_bindgen/web/my_lib_bg.wasm"],
         [op |-> "copy_types", file |-> out \o "/wasm_bindgen/nodejs/my_lib.d.ts"],
         [op |-> "generate_cjs_base64", file |-> out \o "/esm/wasm-base64.js"] }

\* C15 as stated: a step that finds the file it expects from an earlier
\* phase absent (the Web binary, the Web JavaScript file, the type
\* declarations, the ESM base64 module) fails; it is never passed over.
C15_MissingArtifactFatal ==
    \A i \in StepEntries : \A e \in ExpectedArtifacts :
       (log[i].op = e.op /\ ~Exists(fs, e.file)) => ~log[i].complete


\* the directory of wasm_bindgen/ an environment's entrypoint reads from
BindingDirOf(env) ==
    config.out_dir \o "/wasm_bindgen/"
    \o (CASE env = "Node" -> "nodejs" [] env = "Bundler" -> "bundler" [] OTHER -> "web")

\* the binding JavaScript of an environment is on disk (for the nodejs
\* target under its name before or after the rename)
BindingOnDisk(env) ==
    \/ Exists(fs, BindingDirOf(env) \o "/my_lib.js")
    \/ Exists(fs, BindingDirOf(env) \o "/my_lib.cjs")

\* the positions where an ESM entrypoint was synthesized
Syntheses == { i \in StepEntries : log[i].op = "write_esm" }

\* C16 as stated: when the entrypoint of an environment is synthesized, the
\* binding output of its target has been produced before in the same run,
\* on the live path and on the archive path.
C16_BindingsProducedFirst ==
    \A i \in Syntheses :
       /\ BindingOnDisk(log[i].path)
       /\ \E j \in 1..(i - 1) :
             log[j].phase = "obtain" /\ log[j].kind = "invoke" /\ log[j].complete

\* C16: when the entrypoint of an environment is synthesized, the obtain
\* phase has finished before in the same run.  On the live path
\* wasm-bindgen has then produced the output of the environment's target.
\* On the archive path the archive has been extracted and the output of the
\* web target is there; whether the nodejs and bundler outputs are there
\* depends on what the archive holds.
C16_ObtainedFirst ==
    \A i \in Syntheses :
       LET env == log[i].path
       IN IF config.wasm_bindgen_tar = << >>
          THEN /\ BindingOnDisk(env)
               /\ \E j \in 1..(i - 1) :
                     /\ log[j].kind = "invoke" /\ log[j].by = "wasm-bindgen"
                     /\ log[j].path = BindingDirOf(env) /\ log[j].complete
          ELSE /\ \E j \in 1..(i - 1) :
                     /\ log[j].kind = "invoke" /\ log[j].by = "tar"
                     /\ log[j].complete
               /\ env \notin {"Node", "Bundler"} => BindingOnDisk(env)

\* the bundler entrypoint synthesized after an archive without the bundler
\* JavaScript was extracted
C16_Witness ==
    /\ config.wasm_bindgen_tar # << >>
    /\ \E i \in Syntheses : log[i].path = "Bundler" /\ log[i].complete
    /\ ~BindingOnDisk("Bundler")


\* the capitalized-identifier form of the names that occur
IdentifierOf(name) ==
    CASE name = "my-lib" -> "MyLib"
      [] name = "my_lib" -> "MyLib"
      [] name = "test-wasm-lib" -> "TestWasmLib"
      [] OTHER -> ""

\* the bundles esbuild built in this run
BuiltBundles ==
    { q \in DOMAIN fs :
        /\ fs[q].k = "bundle"
        /\ \E i \in BundleBuilds : log[i].path = q /\ log[i].complete }

\* the name the manifest gives the package, which names the standalone binary
PackageNameOf(manifest) ==
    IF Field(manifest.json, "name").t = "str"
    THEN Field(manifest.json, "name").s
    ELSE "my-lib"

\* C17 as stated: the global name given to esbuild for the iife bundle is
\* the package name (the name of the standalone {package-name}.wasm) in
\* capitalized-identifier form, and no cjs bundle is given a global name.
C17_GlobalNameFromPackage ==
    \A q \in BuiltBundles :
       IF fs[q].format = "iife"
       THEN fs[q].global_name = << IdentifierOf(PackageNameOf(Manifest0)) >>
       ELSE fs[q].global_name = << >>

\* C17: the global name given to esbuild for the iife bundle is the crate
\* name of Cargo.toml in capitalized-identifier form, whatever the package
\* name of the manifest is (which names the standalone binary); no cjs
\* bundle is given a global name.
C17_GlobalNameFromCrate ==
    /\ \A q \in BuiltBundles :
          IF fs[q].format = "iife"
          THEN fs[q].global_name = << IdentifierOf(world.crate_name) >>
          ELSE fs[q].global_name = << >>
    /\ status = "done" =>
          Exists(fs, config.out_dir \o "/" \o PackageNameOf(Manifest0) \o ".wasm")

\* a finished run of crate my-lib whose manifest names the package test-wasm-lib
C17_Witness ==
    /\ status = "done"
    /\ runs = 1
    /\ PackageNameOf(Manifest0) = "test-wasm-lib"
    /\ Exists(fs, config.out_dir \o "/test-wasm-lib.wasm")
    /\ \E q \in BuiltBundles : fs[q].global_name = << "MyLib" >>


\* failures that what an earlier run left behind could cause
FailuresOfContent ==
    { "Failed to parse package.json", "package.json must be an object",
      "Failed to parse base64 from ESM module", "Could not find package name" }

\* C18: a run started on what a successful run left (same inputs, the
\* output directory and the manifest of that run) does not fail over what it
\* finds there, and when it succeeds the output directory, the manifest and
\* everything else are exactly as the earlier run left them.
C18_RerunReproduces ==
    runs >= 2 =>
       /\ \A n \in 1..Len(failures) : failures[n].what \notin FailuresOfContent
       /\ status = "done" => fs = fs0

\* a second successful run of a live build
C18_Witness ==
    /\ runs = 2
    /\ status = "done"
    /\ config.wasm_bindgen_tar = << >>
    /\ fs = fs0
    /\ Exists(fs, config.out_dir \o "/wasm_bindgen/nodejs/my_lib.cjs")


\* the environments whose ESM entrypoint the run wrote completely
EsmWritten ==
    { log[i].path : i \in { j \in StepEntries : log[j].op = "write_esm" /\ log[j].complete } }

EsmText(env) == TextOf(fs[EsmFile(file_stem(env))])

Has(text, sub) == Occurrences(text, sub) # {}

\* a statement that re-exports from another module
IsReExport(line) == StartsWith(line, "export ") /\ Has(line, " from '../wasm_bindgen/")

\* C20: the ESM entrypoint written for an environment is non-empty and calls
\* initSync exactly when the environment's strategy is Base64Embedded or
\* SyncWasmImport; the Base64Embedded one imports wasmBase64 from
\* ./wasm-base64.js; those of AutoNodejs, BundlerPassthrough and Manual
\* consist of re-export statements only (Manual: of the public surface and of
\* the default initializer) and call nothing.
C20_EsmEntrypointContent ==
    \A env \in EsmWritten :
       LET text == EsmText(env)
           strategy == init_strategy(env)
           lines == Split(text, "\n")
       IN /\ Len(text) > 0
          /\ Has(text, "initSync(") <=> strategy \in { "Base64Embedded", "SyncWasmImport" }
          /\ strategy = "Base64Embedded" =>
                Has(text, "import { wasmBase64 } from './wasm-base64.js';\n")
          /\ strategy \in { "AutoNodejs", "BundlerPassthrough", "Manual" } =>
                /\ \A n \in 1..Len(lines) : lines[n] = "" \/ IsReExport(lines[n])
                /\ \E n \in 1..Len(lines) : StartsWith(lines[n], "export * from ")
                /\ ~Has(text, "(")
          /\ strategy = "Manual" => Has(text, "export { default } from ")

\* the five entrypoints are written, one strategy each
C20_Witness ==
    /\ EsmWritten = { "Node", "Web", "Bundler", "Workerd", "Slim" }
    /\ { init_strategy(env) : env \in EsmWritten }
          = { "AutoNodejs", "Base64Embedded", "BundlerPassthrough", "SyncWasmImport", "Manual" }
    /\ Has(EsmText("Web"), "initSync(bytes);")
    /\ ~Has(EsmText("Slim"), "initSync")

\* the complete writes of the run to a path, its own and those of a tool
WritesTo(path) ==
    { i \in 1..Len(log) : log[i].kind = "write" /\ log[i].path = path /\ log[i].complete }

\* C21: generate_cjs_entrypoint returns a wrapper for exactly the
\* environments whose wasm-bindgen target is Nodejs; no environment has both
\* a wrapper and needs_cjs_bundle; and no cjs/{file_stem}.cjs is written
\* more than once in a run, the wrapper by the run itself and the bundles by
\* esbuild.
C21_CjsSynthesizedOrBundled ==
    /\ \A env \in { "Node", "Web", "Bundler", "Workerd", "Iife", "Slim" } :
          /\ generate_cjs_entrypoint(env, "my_lib") # << >>
                <=> wasm_bindgen_target(env) = "Nodejs"
          /\ ~(generate_cjs_entrypoint(env, "my_lib") # << >> /\ needs_cjs_bundle(env))
          /\ Cardinality(WritesTo(CjsFile(file_stem(env)))) <= 1
          /\ \A i \in WritesTo(CjsFile(file_stem(env))) :
                log[i].by = (IF needs_cjs_bundle(env) THEN "esbuild" ELSE "self")

\* node.cjs was synthesized, web.cjs and slim.cjs were bundled, once each
C21_Witness ==
    /\ Began("finalize")
    /\ \A stem \in { "node", "web", "slim" } : Cardinality(WritesTo(CjsFile(stem))) = 1
    /\ \E i \in WritesTo(CjsFile("node")) : log[i].by = "self"
    /\ \E i \in WritesTo(CjsFile("slim")) : log[i].by = "esbuild"

\* post_process::run has returned Ok in this run
PostProcessed ==
    \E i \in StepEntries : log[i].op = "generate_base64_module" /\ log[i].complete

NodeJs == config.out_dir \o "/wasm_bindgen/nodejs/my_lib.js"

NodeCjs == config.out_dir \o "/wasm_bindgen/nodejs/my_lib.cjs"

\* the CommonJS text wasm-bindgen generates for the nodejs target
NodeOutput == wasm_bindgen_output("Nodejs", "my_lib", world.wasm)["my_lib.js"]

\* the file the Node entrypoints name is nodejs/my_lib.cjs
NodeEntrypointsNameCjs ==
    /\ Join(config.out_dir, wasm_bindgen_js("Nodejs", "my_lib")) = NodeCjs
    /\ generate_esm_entrypoint("Node", "my_lib")
          = "export * from '../wasm_bindgen/nodejs/my_lib.cjs';\n"
    /\ generate_cjs_entrypoint("Node", "my_lib")
          = << "module.exports = require('../wasm_bindgen/nodejs/my_lib.cjs');\n" >>

\* the run renamed nodejs/my_lib.js
Renamed == \E i \in 1..Len(log) : log[i].kind = "rename" /\ log[i].path = NodeJs

\* C23 as stated: once post-processing has succeeded there is no
\* nodejs/my_lib.js, and nodejs/my_lib.cjs, which the Node entrypoints point
\* to, is the renamed output.
C23_NodeOutputRenamed ==
    PostProcessed =>
       /\ ~Exists(fs, NodeJs)
       /\ NodeEntrypointsNameCjs
       /\ Exists(fs, NodeCjs) /\ fs[NodeCjs] = NodeOutput

\* C23: once post-processing has succeeded there is no nodejs/my_lib.js.
\* When the file was there (always after wasm-bindgen, and after an archive
\* holding it) it was renamed, and nodejs/my_lib.cjs, which the Node
\* entrypoints point to, is the renamed output.  When the archive lacks it
\* the rename is skipped without a failure, and the Node entrypoints point to
\* a nodejs/my_lib.cjs that does not exist.
C23_RenamedWhenPresent ==
    PostProcessed =>
       /\ ~Exists(fs, NodeJs)
       /\ NodeEntrypointsNameCjs
       /\ \A n \in 1..Len(failures) : failures[n].op # "rename_nodejs"
       /\ Renamed <=> (config.wasm_bindgen_tar = << >>
                       \/ "nodejs/my_lib.js" \in DOMAIN world.archive)
       /\ IF Renamed
          THEN Exists(fs, NodeCjs) /\ fs[NodeCjs] = NodeOutput
          ELSE ~Exists(fs, NodeCjs)

\* an archive's nodejs/my_lib.js renamed, and the run through
C23_Witness ==
    /\ status = "done"
    /\ config.wasm_bindgen_tar # << >>
    /\ Renamed
    /\ Exists(fs, NodeCjs)
    /\ ~Exists(fs, NodeJs)

\* the files a build reads: its input entrypoint and what that imports
ReadByBuild(output) ==
    LET out == config.out_dir
        input == (CHOOSE b \in ExpectedBuilds : b[1] = output)[3]
    IN { input, out \o "/wasm_bindgen/web/my_lib.js" }
       \cup (IF input = out \o "/esm/web.js" THEN { out \o "/esm/wasm-base64.js" } ELSE {})

\* C24: whenever esbuild is invoked, for the iife bundle or a cjs bundle,
\* the run has before that, itself and completely, written the build's input
\* ESM entrypoint, the patched wasm_bindgen/web/my_lib.js the entrypoint
\* imports and, for the builds from esm/web.js, esm/wasm-base64.js; and a
\* bundle that was built holds the text of the entrypoint as synthesized.
C24_BundleInputsWrittenFirst ==
    \A i \in BundleBuilds :
       /\ \E b \in ExpectedBuilds : b[1] = log[i].path
       /\ \A file \in ReadByBuild(log[i].path) :
             \E j \in 1..(i - 1) :
                /\ log[j].kind = "write" /\ log[j].by = "self"
                /\ log[j].path = file /\ log[j].complete
       /\ log[i].complete =>
             LET input == (CHOOSE b \in ExpectedBuilds : b[1] = log[i].path)[3]
             IN /\ fs[log[i].path].k = "bundle"
                /\ fs[log[i].path].entry = input
                /\ fs[log[i].path].src = TextOf(fs[input])
                /\ fs[log[i].path].src # ""

\* the three builds made, after the entrypoints and their imports
C24_Witness ==
    /\ Cardinality({ i \in BundleBuilds : log[i].complete }) = 3
    /\ \E i \in BundleBuilds :
          /\ log[i].path = config.out_dir \o "/cjs/slim.cjs"
          /\ \E j \in 1..(i - 1) :
                log[j].kind = "write" /\ log[j].path = config.out_dir \o "/esm/slim.js"

\* the strings at the leaves of a JSON value
RECURSIVE Leaves(_)
Leaves(v) ==
    IF v.t = "str" THEN { v.s }
    ELSE IF v.t = "obj" THEN UNION { Leaves(v.o[n][2]) : n \in 1..Len(v.o) }
    ELSE {}

\* the file paths the manifest refers to; the manifest lies in "." and
\* names them ./{dist}/..., which is how the file system names them too
ManifestPaths ==
    UNION { Leaves(Field(ManifestNow.json, key)) : key \in { "main", "module", "types", "exports" } }

\* C25: after a successful run every file path the manifest refers to
\* (main, module, types and every leaf of exports) names a file that exists
\* in the output directory.
C25_ManifestPathsExist ==
    status = "done" =>
       /\ Cardinality(ManifestPaths) >= 10
       /\ \A path \in ManifestPaths :
             InOutDir(path) /\ Exists(fs, path) /\ fs[path].k # "dir"

\* the pipeline produces cjs/{file_stem}.cjs for the environment
CjsProduced(env) == generate_cjs_entrypoint(env, "my_lib") # << >> \/ needs_cjs_bundle(env)

\* what the manifest gives for require under an export key: for a nested
\* condition its require, for the root's own require the string itself
RequireOf(export, key) ==
    IF Field(export, key).t = "obj" THEN Field(Field(export, key), "require")
    ELSE Field(export, key)

\* C26: every environment ROOT_EXPORT_MAPPING names for CommonJS, and Slim
\* for ./slim, is Node (synthesized directly) or has needs_cjs_bundle, and
\* every environment named for ESM is in Environment::all(); so after a
\* successful run each require path of the root export and of ./slim names
\* the cjs/{file_stem}.cjs of that environment, written in the run.
C26_MappedCjsProduced ==
    /\ \A n \in 1..Len(ROOT_EXPORT_MAPPING) :
          /\ CjsProduced(ROOT_EXPORT_MAPPING[n].cjs)
          /\ \E k \in 1..Len(Environment_all) : Environment_all[k] = ROOT_EXPORT_MAPPING[n].esm
    /\ CjsProduced("Slim")
    /\ \E k \in 1..Len(Environment_all) : Environment_all[k] = "Slim"
    /\ status = "done" =>
          /\ \A n \in 1..Len(ROOT_EXPORT_MAPPING) :
                LET m == ROOT_EXPORT_MAPPING[n]
                    file == CjsFile(file_stem(m.cjs))
                IN /\ m.condition # "Import" =>
                         RequireOf(RootExport(ManifestNow.json),
                                   ExportCondition_as_str(m.condition)) = JStr(file)
                   /\ WritesTo(file) # {}
                   /\ WritesTo(EsmFile(file_stem(m.esm))) # {}
          /\ Field(Field(Field(ManifestNow.json, "exports"), "./slim"), "require")
                = JStr(CjsFile("slim"))
          /\ WritesTo(CjsFile("slim")) # {}

\* workerd and browser resolve require to the bundle of the Web environment
C26_Witness ==
    /\ status = "done"
    /\ RequireOf(RootExport(ManifestNow.json), "workerd") = JStr(CjsFile("web"))
    /\ RequireOf(RootExport(ManifestNow.json), "browser") = JStr(CjsFile("web"))
    /\ fs[CjsFile("web")].k = "bundle"

\* the artifacts finalize::run adds to the output directory
FinalizeArtifacts ==
    { config.out_dir \o "/index.d.ts",
      config.out_dir \o "/" \o locals.package_name \o ".wasm",
      config.out_dir \o "/cjs/wasm-base64.cjs" }

\* C27: when the manifest is written, the type declarations, the standalone
\* binary and the CommonJS base64 module have been written before in the
\* run, so that a run failing after the manifest write leaves no manifest
\* naming files that were never produced.
C27_ManifestWrittenLast ==
    /\ \A i \in ManifestWrites :
          \A file \in FinalizeArtifacts :
             \E j \in 1..(i - 1) :
                log[j].kind = "write" /\ log[j].path = file /\ log[j].complete
    /\ (status = "failed" /\ \E i \in ManifestWrites : log[i].complete) =>
          \A file \in FinalizeArtifacts : Exists(fs, file)

\* the module specifiers an entrypoint imports or re-exports from: what
\* stands between from ' and the next '
Specifiers(text) ==
    LET quotes == Occurrences(text, "'")
    IN { SubSeq(text, i + 6, Least({ k \in quotes : k >= i + 6 }) - 1)
         : i \in Occurrences(text, "from '") }

\* C28: every module an environment's ESM entrypoint imports or re-exports,
\* other than ./wasm-base64.js, lies in ../wasm_bindgen/{dir}/ for the
\* directory of the environment's own wasm-bindgen target, also where the
\* template spells out the web directory; and each entrypoint names one.
C28_EntrypointReadsOwnTarget ==
    \A env \in EsmWritten :
       LET from == Specifiers(EsmText(env)) \ { "./wasm-base64.js" }
           dir == "../" \o wasm_bindgen_dir(wasm_bindgen_target(env)) \o "/"
       IN /\ from # {}
          /\ \A specifier \in from : StartsWith(specifier, dir)

\* the entrypoints of the three strategies with a spelled-out web directory,
\* and those of the two that compute the path
C28_Witness ==
    /\ EsmWritten = { "Node", "Web", "Bundler", "Workerd", "Slim" }
    /\ "../wasm_bindgen/web/my_lib_bg.wasm" \in Specifiers(EsmText("Workerd"))
    /\ Specifiers(EsmText("Bundler")) = { "../wasm_bindgen/bundler/my_lib.js" }
    /\ Specifiers(EsmText("Node")) = { "../wasm_bindgen/nodejs/my_lib.cjs" }

-----------------------------------------------------------------------------
\* Properties of the base64 payload (specification SpecBase64).

\* C19: whatever the binary (every byte value, every length modulo 3), the
\* payload generate_base64_module writes, and the copy generate_cjs_base64
\* makes of it, decode under the entrypoint's atob/charCodeAt statement to
\* exactly the bytes of the binary.
C19_Base64RoundTrip ==
    (status = "codec" /\ resolved # << >>) => resolved[1].bytes = << world.wasm >>

\* the buffer of all 256 byte values, encoded and decoded back
C19_Witness ==
    /\ status = "codec"
    /\ Len(world.wasm) = 256
    /\ \A b \in 0..255 : \E i \in 1..256 : world.wasm[i] = b
    /\ resolved # << >>
    /\ resolved[1].module = wasm_base64_esm
    /\ resolved[1].bytes = << world.wasm >>


\* C29: once generate_cjs_base64 has returned Ok, cjs/wasm-base64.cjs and
\* esm/wasm-base64.js hold the same payload string, the standard base64 of
\* the binary, whatever the binary (the empty one included); the ESM module
\* exports it as the constant wasmBase64 and the CommonJS module assigns it
\* to module.exports.wasmBase64, and neither holds anything else.
C29_SamePayloadBothModules ==
    (status = "codec" /\ pc = 2) =>
       LET esm == TextOf(fs[Join(config.out_dir, wasm_base64_esm)])
           cjs == TextOf(fs[Join(config.out_dir, wasm_base64_cjs)])
           payload == base64_encode(world.wasm)
       IN /\ wasmBase64_of(esm) = << payload >>
          /\ wasmBase64_of(cjs) = wasmBase64_of(esm)
          /\ esm = "export const wasmBase64 = \"" \o payload \o "\";\n"
          /\ cjs = "module.exports.wasmBase64 = \"" \o payload \o "\";\n"

\* both modules written for the empty binary
C29_Witness ==
    /\ status = "codec"
    /\ pc = 2
    /\ world.wasm = << >>
    /\ TextOf(fs[Join(config.out_dir, wasm_base64_cjs)]) = "module.exports.wasmBase64 = \"\";\n"
    /\ TextOf(fs[Join(config.out_dir, wasm_base64_esm)]) = "export const wasmBase64 = \"\";\n"

-----------------------------------------------------------------------------
\* Properties of the @vite-ignore patch (specification SpecPatch).

PatchedFile ==
    fs[Join(Join("./dist/wasm_bindgen", dir_name("Web")), world.wasm_name \o ".js")]

\* a piece as the patch has to leave it
PatchedPiece(piece) ==
    IF piece = "new URL('" \o world.wasm_name \o "_bg.wasm', import.meta.url)"
    THEN "new /* @vite-ignore */ URL('" \o world.wasm_name \o "_bg.wasm', import.meta.url)"
    ELSE piece

\* C22: after apply_vite_fix has returned Ok, once or twice, the file is the
\* source with every new URL('{wasm_name}_bg.wasm', import.meta.url) given
\* the comment right before URL and every other piece as it was: the
\* constructions naming another module, the ones already patched and the
\* rest of the code; a source without the construction is left as it was.
C22_PatchExactlyTheConstruct ==
    (status = "patch" /\ pc >= 1) =>
       /\ PatchedFile = Text(Concat([n \in 1..Len(world.pieces) |->
                                       PatchedPiece(world.pieces[n])]))
       /\ (\A n \in 1..Len(world.pieces) : PatchedPiece(world.pieces[n]) = world.pieces[n])
             => PatchedFile = fs0[Join(Join("./dist/wasm_bindgen", dir_name("Web")),
                                       world.wasm_name \o ".js")]

\* patched twice: a source with the construction twice and another module's
C22_Witness ==
    /\ status = "patch"
    /\ pc = 2
    /\ world.wasm_name = "my_lib"
    /\ world.pieces = << "new URL('my_lib_bg.wasm', import.meta.url)",
                         "new URL('other_bg.wasm', import.meta.url)",
                         "new URL('my_lib_bg.wasm', import.meta.url)" >>
    /\ Cardinality(Occurrences(TextOf(PatchedFile), "/* @vite-ignore */")) = 2

====
